---- MODULE Spec2Model ----
(***************************************************************************)
(* State-machine model of the lookahead SAT solver of                      *)
(* src/sat/sat_lookahead.cpp (class sat::lookahead).                       *)
(*                                                                         *)
(* The solver state is the set of VARIABLES below, one per data member.    *)
(* Every member function is an operator from a state record to a state     *)
(* record, translated statement by statement; the actions are the steps    *)
(* of lookahead::search() and of the loops it runs.                        *)
(*                                                                         *)
(* Abstractions, stated once:                                              *)
(*  - unsigned is WordBits wide instead of 32 (TLC integers are 32-bit     *)
(*    signed); UINT_MAX and c_fixed_truth scale with it.                   *)
(*  - doubles (H-scores, ratings, WNB, delta_trigger) are fixed-point      *)
(*    integers in units of 1/Scale; the H-score table m_heur is an input   *)
(*    of the run (one of HeurProfiles), not the IEEE iteration h_scores.   *)
(*  - DRAT emission, statistics and the external extension are left out:   *)
(*    they do not feed back into the solver state (m_drat is off, no       *)
(*    EXT_CONSTRAINT watch is ever created by init()).                     *)
(***************************************************************************)
EXTENDS Integers, Sequences, FiniteSets, TLC

\* ---------------------------------------------------------------- bounds
NumVars == 4
WordBits == 8

\* ------------------------------------------------- configuration (m_config)
tc1_limit == 2
dl_max_iterations == 1
level_cand == 2
min_cutoff == 1

\* ------------------------------------------------------- literals (sat_types.h)
\* TLC keeps [x \in S |-> e] as an unevaluated expression; table(f) is f held
\* as an explicit table of its values.
table(f) == f @@ << >>

Vars == 0 .. (NumVars - 1)
Lits == 0 .. (2 * NumVars - 1)
null_literal == 0 - 2

var(l) == l \div 2
sign(l) == l % 2
neg(l) == IF l % 2 = 0 THEN l + 1 ELSE l - 1
mk_literal(v, sgn) == 2 * v + (IF sgn THEN 1 ELSE 0)

UINT_MAX == 2 ^ WordBits - 1
c_fixed_truth == UINT_MAX - 1

\* ------------------------------------------------------------- sequences
Last(q) == q[Len(q)]
Front(q) == SubSeq(q, 1, Len(q) - 1)
Shrink(q, n) == SubSeq(q, 1, n)
Contains(q, x) == \E i \in 1 .. Len(q) : q[i] = x
Range(q) == {q[i] : i \in 1 .. Len(q)}

Max2(a, b) == IF a >= b THEN a ELSE b
Min2(a, b) == IF a <= b THEN a ELSE b

\* ------------------------------------------------------------------ state
\* Inputs handed over by the enclosing solver (m_s): its binary watches in
\* scan order, its clauses of size >= 3, its initial trail, and the H-table.
VARIABLES in_binary, in_clauses, in_units, in_heur, in_assumptions, in_vars

\* Data members of sat::lookahead.
VARIABLES m_stamp, m_level, m_trail, m_trail_lim, m_binary, m_binary_trail,
          m_binary_trail_lim, m_num_tc1, m_num_tc1_lim, m_qhead, m_qhead_lim,
          m_clauses, m_retired_clauses, m_retired_clause_lim,
          m_retired_ternary, m_retired_ternary_lim, m_watches,
          m_inconsistent, m_bstamp, m_bstamp_id, m_istamp_id, m_lits,
          m_heur, m_rating, m_weighted_new_binaries, m_wstack, m_prefix,
          m_vprefix, m_freevars, m_search_mode, m_delta_trigger,
          m_assumptions, m_candidates, m_dfs, m_rank, m_active, m_settled,
          m_root_child, m_lookahead, m_model, m_select_lookahead_vars

\* Control state of search(): position, the local decision trail, the
\* literal returned by choose(), the locals of compute_wnb(), the result.
VARIABLES pc, trail, lit_chosen, cw, result, m_rand

\* History of the open scopes of search(): what push() found when it opened
\* each scope, whether anything ran since the newest push(), and what the
\* last pop() found and left.  Written by the actions, read by no operator.
VARIABLES scopes, fresh, popped

\* History of the windfall binaries: windfalls[d + 1] holds the pairs
\* << ~l, w >> that pop_lookahead1 added while d scopes of search() were
\* open and that scope is still open.  Written by the actions, read by no
\* operator.
VARIABLE windfalls

\* The level arithmetic of compute_wnb(), do_double() and double_look() on
\* its own: the table size, dl_max_iterations and the offsets of the table,
\* the locals base, first, change and the position in the table, the
\* entries that are fixed or have had their double look, and the levels
\* that the last step used.
VARIABLE lv

\* The cut of select() on its own: the candidates, the sum of their ratings
\* and max_num_cand, the candidates that entered the heap step, and the
\* position in select().
VARIABLE hc

\* The decisions search() has made, each with the decision stack it was
\* pushed on.
VARIABLE explored

inputs == << in_binary, in_clauses, in_units, in_heur, in_assumptions,
            in_vars >>

solver == << m_stamp, m_level, m_trail, m_trail_lim, m_binary, m_binary_trail,
             m_binary_trail_lim, m_num_tc1, m_num_tc1_lim, m_qhead,
             m_qhead_lim, m_clauses, m_retired_clauses, m_retired_clause_lim,
             m_retired_ternary, m_retired_ternary_lim, m_watches,
             m_inconsistent, m_bstamp, m_bstamp_id, m_istamp_id, m_lits,
             m_heur, m_rating, m_weighted_new_binaries, m_wstack, m_prefix,
             m_vprefix, m_freevars, m_search_mode, m_delta_trigger,
             m_assumptions, m_candidates, m_dfs, m_rank, m_active, m_settled,
             m_root_child, m_lookahead, m_model, m_select_lookahead_vars >>

control == << pc, trail, lit_chosen, cw, result, m_rand >>

history == << scopes, fresh, popped >>

learned == << windfalls, lv, hc, explored >>

vars == << inputs, solver, control, history,
                  learned >>

\* The members that pop() is to put back, as push() finds them.
Snapshot(s) ==
  [m_trail |-> s.m_trail, m_binary |-> s.m_binary,
   m_binary_trail |-> s.m_binary_trail,
   m_retired_clauses |-> s.m_retired_clauses,
   m_retired_ternary |-> s.m_retired_ternary,
   m_qhead |-> s.m_qhead, m_num_tc1 |-> s.m_num_tc1,
   m_inconsistent |-> s.m_inconsistent]

NoSnapshot ==
  [m_trail |-> << >>, m_binary |-> << >>, m_binary_trail |-> << >>,
   m_retired_clauses |-> << >>, m_retired_ternary |-> << >>,
   m_qhead |-> 0, m_num_tc1 |-> 0, m_inconsistent |-> FALSE]

NoPop ==
  [valid |-> FALSE, fresh |-> FALSE, at_push |-> NoSnapshot,
   before_pop |-> NoSnapshot]

\* The solver state as one record, so that member functions compose.
State ==
  [ m_stamp |-> m_stamp, m_level |-> m_level, m_trail |-> m_trail,
    m_trail_lim |-> m_trail_lim, m_binary |-> m_binary,
    m_binary_trail |-> m_binary_trail,
    m_binary_trail_lim |-> m_binary_trail_lim, m_num_tc1 |-> m_num_tc1,
    m_num_tc1_lim |-> m_num_tc1_lim, m_qhead |-> m_qhead,
    m_qhead_lim |-> m_qhead_lim, m_clauses |-> m_clauses,
    m_retired_clauses |-> m_retired_clauses,
    m_retired_clause_lim |-> m_retired_clause_lim,
    m_retired_ternary |-> m_retired_ternary,
    m_retired_ternary_lim |-> m_retired_ternary_lim, m_watches |-> m_watches,
    m_inconsistent |-> m_inconsistent, m_bstamp |-> m_bstamp,
    m_bstamp_id |-> m_bstamp_id, m_istamp_id |-> m_istamp_id,
    m_lits |-> m_lits, m_heur |-> m_heur, m_rating |-> m_rating,
    m_weighted_new_binaries |-> m_weighted_new_binaries,
    m_wstack |-> m_wstack, m_prefix |-> m_prefix, m_vprefix |-> m_vprefix,
    m_freevars |-> m_freevars, m_search_mode |-> m_search_mode,
    m_delta_trigger |-> m_delta_trigger, m_assumptions |-> m_assumptions,
    m_candidates |-> m_candidates, m_dfs |-> m_dfs, m_rank |-> m_rank,
    m_active |-> m_active, m_settled |-> m_settled,
    m_root_child |-> m_root_child, m_lookahead |-> m_lookahead,
    m_model |-> m_model,
    m_select_lookahead_vars |-> m_select_lookahead_vars ]

SetState(s) ==
  /\ m_stamp' = s.m_stamp
  /\ m_level' = s.m_level
  /\ m_trail' = s.m_trail
  /\ m_trail_lim' = s.m_trail_lim
  /\ m_binary' = s.m_binary
  /\ m_binary_trail' = s.m_binary_trail
  /\ m_binary_trail_lim' = s.m_binary_trail_lim
  /\ m_num_tc1' = s.m_num_tc1
  /\ m_num_tc1_lim' = s.m_num_tc1_lim
  /\ m_qhead' = s.m_qhead
  /\ m_qhead_lim' = s.m_qhead_lim
  /\ m_clauses' = s.m_clauses
  /\ m_retired_clauses' = s.m_retired_clauses
  /\ m_retired_clause_lim' = s.m_retired_clause_lim
  /\ m_retired_ternary' = s.m_retired_ternary
  /\ m_retired_ternary_lim' = s.m_retired_ternary_lim
  /\ m_watches' = s.m_watches
  /\ m_inconsistent' = s.m_inconsistent
  /\ m_bstamp' = s.m_bstamp
  /\ m_bstamp_id' = s.m_bstamp_id
  /\ m_istamp_id' = s.m_istamp_id
  /\ m_lits' = s.m_lits
  /\ m_heur' = s.m_heur
  /\ m_rating' = s.m_rating
  /\ m_weighted_new_binaries' = s.m_weighted_new_binaries
  /\ m_wstack' = s.m_wstack
  /\ m_prefix' = s.m_prefix
  /\ m_vprefix' = s.m_vprefix
  /\ m_freevars' = s.m_freevars
  /\ m_search_mode' = s.m_search_mode
  /\ m_delta_trigger' = s.m_delta_trigger
  /\ m_assumptions' = s.m_assumptions
  /\ m_candidates' = s.m_candidates
  /\ m_dfs' = s.m_dfs
  /\ m_rank' = s.m_rank
  /\ m_active' = s.m_active
  /\ m_settled' = s.m_settled
  /\ m_root_child' = s.m_root_child
  /\ m_lookahead' = s.m_lookahead
  /\ m_model' = s.m_model
  /\ m_select_lookahead_vars' = s.m_select_lookahead_vars

\* ------------------------------------------- truth values (sat_lookahead.h)
\* One stamp per variable: the level it was assigned at, plus the sign bit.
is_fixed(s, l) == s.m_stamp[var(l)] >= s.m_level
is_undef(s, l) == ~is_fixed(s, l)
is_false(s, l) == is_fixed(s, l) /\ (s.m_stamp[var(l)] % 2) # sign(l)
is_true(s, l) == is_fixed(s, l) /\ (s.m_stamp[var(l)] % 2) = sign(l)
is_fixed_at(s, l, level) == s.m_stamp[var(l)] >= level
set_true(s, l) == [s EXCEPT !.m_stamp[var(l)] = s.m_level + sign(l)]
set_undef(s, l) == [s EXCEPT !.m_stamp[var(l)] = 0]
set_conflict(s) == [s EXCEPT !.m_inconsistent = TRUE]
scope_lvl(s) == Len(s.m_trail_lim)

\* indexed_uint_set m_freevars: the element array in iteration order.
freevars_insert(fv, x) == Append(fv, x)

freevars_remove(fv, x) ==
  LET y == Last(fv)
      idx == CHOOSE i \in 1 .. Len(fv) : fv[i] = x
  IN IF x = y THEN Front(fv) ELSE Front([fv EXCEPT ![idx] = y])

\* ------------------------------------------------------------ assignment
\* assign that gives a false literal its new value instead of a conflict.
assign_overwrites(s, l) ==
  IF ~is_true(s, l)
  THEN LET s1 == set_true(s, l)
       IN [s1 EXCEPT !.m_trail = Append(s1.m_trail, l)]
  ELSE s

assign(s, l) ==
  IF is_undef(s, l)
  THEN LET s1 == set_true(s, l)
           s2 == [s1 EXCEPT !.m_trail = Append(s1.m_trail, l)]
       IN IF s.m_search_mode = "searching"
          THEN [s2 EXCEPT !.m_freevars = freevars_remove(s2.m_freevars, var(l))]
          ELSE s2
  ELSE IF is_false(s, l) THEN set_conflict(s)
  ELSE s

\* ---------------------------------------------------------------- prefix
\* m_prefix (uint64) and m_vprefix[x].m_prefix (unsigned) as the sets of
\* their one-bits, so that masks and the narrowing cast are exact.
PrefixBits == 64
UnsignedBits == 32
low_bits(p, n) == {b \in p : b < n}

flip_prefix(s) ==
  IF Len(s.m_trail_lim) < PrefixBits
  THEN [s EXCEPT !.m_prefix =
          {Len(s.m_trail_lim)} \cup low_bits(s.m_prefix, Len(s.m_trail_lim))]
  ELSE s

update_prefix(s, l) ==
  LET x == var(l)
      p == s.m_vprefix[x].m_prefix
      pl == s.m_vprefix[x].m_length
      n == Min2(UnsignedBits - 1, pl)
  IN IF pl >= Len(s.m_trail_lim) \/ low_bits(p, n) # low_bits(s.m_prefix, n)
     THEN [s EXCEPT !.m_vprefix[x] =
             [m_length |-> Len(s.m_trail_lim),
              m_prefix |-> low_bits(s.m_prefix, UnsignedBits)]]
     ELSE s

active_prefix(s, x) ==
  LET lvl == Len(s.m_trail_lim)
      p == s.m_vprefix[x].m_prefix
      l == s.m_vprefix[x].m_length
      n == Min2(l, UnsignedBits - 1)
  IN IF l > lvl THEN FALSE
     ELSE IF l = lvl \/ l >= UnsignedBits - 1 THEN s.m_prefix = p
     ELSE low_bits(s.m_prefix, n) = low_bits(p, n)

\* ------------------------------------------------------- binary adjacency
\* add_binary that records the clause at ~l1 only.
add_binary_one_sided(s, l1, l2) ==
  IF neg(l1) = l2 THEN s
  ELSE [s EXCEPT !.m_binary[neg(l1)] = Append(@, l2),
                 !.m_binary_trail = Append(s.m_binary_trail, neg(l1))]

\* add_binary without the comparison with the back of the list of ~l1.
add_binary_unchecked(s, l1, l2) ==
  IF neg(l1) = l2 THEN s
  ELSE LET b1 == [s.m_binary EXCEPT ![neg(l1)] = Append(@, l2)]
           b2 == [b1 EXCEPT ![neg(l2)] = Append(@, l1)]
       IN [s EXCEPT !.m_binary = b2,
                    !.m_binary_trail = Append(s.m_binary_trail, neg(l1))]

add_binary(s, l1, l2) ==
  IF neg(l1) = l2 THEN s
  ELSE IF s.m_binary[neg(l1)] # << >> /\ Last(s.m_binary[neg(l1)]) = l2 THEN s
  ELSE LET b1 == [s.m_binary EXCEPT ![neg(l1)] = Append(@, l2)]
           b2 == [b1 EXCEPT ![neg(l2)] = Append(@, l1)]
       IN [s EXCEPT !.m_binary = b2,
                    !.m_binary_trail = Append(s.m_binary_trail, neg(l1))]

\* del_binary pops the back of m_binary[idx] and the back of the partner's
\* list; the SASSERT that this back is ~to_literal(idx) is not compiled in.
del_binary(s, idx) ==
  LET l == Last(s.m_binary[idx])
      b1 == [s.m_binary EXCEPT ![idx] = Front(@)]
      b2 == [b1 EXCEPT ![neg(l)] = Front(@)]
  IN [s EXCEPT !.m_binary = b2]

\* ---------------------------------------------------------------- stamps
\* inc_bstamp that keeps the stamp table when the epoch wraps.
inc_bstamp_keeps_table(s) ==
  LET id == (s.m_bstamp_id + 1) % (UINT_MAX + 1)
  IN IF id = 0
     THEN [s EXCEPT !.m_bstamp_id = 1]
     ELSE [s EXCEPT !.m_bstamp_id = id]

inc_bstamp(s) ==
  LET id == (s.m_bstamp_id + 1) % (UINT_MAX + 1)
  IN IF id = 0
     THEN [s EXCEPT !.m_bstamp_id = 1, !.m_bstamp = table([l \in Lits |-> 0])]
     ELSE [s EXCEPT !.m_bstamp_id = id]

inc_istamp(s) ==
  LET id == (s.m_istamp_id + 1) % (UINT_MAX + 1)
  IN IF id = 0
     THEN [s EXCEPT !.m_istamp_id = 1,
                    !.m_lits = table([l \in Lits |->
                                        [s.m_lits[l] EXCEPT !.m_double_lookahead = 0]])]
     ELSE [s EXCEPT !.m_istamp_id = id]

is_stamped(s, l) == s.m_bstamp[l] = s.m_bstamp_id
set_bstamp(s, l) == [s EXCEPT !.m_bstamp[l] = s.m_bstamp_id]

set_bstamps(s, l) ==
  LET s1 == inc_bstamp(s)
  IN [s1 EXCEPT !.m_bstamp =
        table([x \in Lits |-> IF x = l \/ Contains(s.m_binary[l], x)
                              THEN s1.m_bstamp_id ELSE s1.m_bstamp[x]])]

\* ------------------------------------------------- dynamic binary clauses
\* add_tc1 returns <<state, bool>>; the loop bound sz is taken before the
\* loop, the list itself is read as it grows.
\* add_tc1 that records closure binaries without regard to tc1_limit.
RECURSIVE add_tc1_loop_unbounded(_, _, _, _, _)
add_tc1_loop_unbounded(s, u, v, i, sz) ==
  IF i > sz THEN << s, TRUE >>
  ELSE LET w == s.m_binary[v][i]
       IN IF ~is_fixed(s, w)
          THEN IF is_stamped(s, neg(w))
               THEN << assign(s, u), FALSE >>
               ELSE add_tc1_loop_unbounded(
                      add_binary([s EXCEPT !.m_num_tc1 = @ + 1], u, w),
                      u, v, i + 1, sz)
          ELSE add_tc1_loop_unbounded(s, u, v, i + 1, sz)

RECURSIVE add_tc1_loop(_, _, _, _, _)
add_tc1_loop(s, u, v, i, sz) ==
  IF i > sz THEN << s, TRUE >>
  ELSE LET w == s.m_binary[v][i]
       IN IF ~is_fixed(s, w)
          THEN IF is_stamped(s, neg(w))
               THEN << assign(s, u), FALSE >>
               ELSE IF s.m_num_tc1 < tc1_limit
                    THEN add_tc1_loop(
                           add_binary([s EXCEPT !.m_num_tc1 = @ + 1], u, w),
                           u, v, i + 1, sz)
                    ELSE add_tc1_loop(s, u, v, i + 1, sz)
          ELSE add_tc1_loop(s, u, v, i + 1, sz)

add_tc1(s, u, v) == add_tc1_loop(s, u, v, 1, Len(s.m_binary[v]))

\* try_add_binary that assigns v where the stamps of ~u hold ~v.
try_add_binary_other_unit(s, u, v) ==
  LET after_tc1_vu(r2) ==
        IF ~r2[2] THEN r2[1]
        ELSE add_binary(update_prefix(update_prefix(r2[1], u), v), u, v)
      after_stamp_v(s2) ==
        IF is_stamped(s2, neg(u)) THEN assign(s2, v)
        ELSE after_tc1_vu(add_tc1(s2, v, u))
      after_tc1_uv(r1) ==
        IF ~r1[2] THEN r1[1] ELSE after_stamp_v(set_bstamps(r1[1], neg(v)))
      after_stamp_u(s1) ==
        IF is_stamped(s1, neg(v)) THEN assign(s1, v)
        ELSE IF is_stamped(s1, v) THEN s1
        ELSE after_tc1_uv(add_tc1(s1, u, v))
  IN after_stamp_u(set_bstamps(s, neg(u)))

try_add_binary(s, u, v) ==
  LET after_tc1_vu(r2) ==
        IF ~r2[2] THEN r2[1]
        ELSE add_binary(update_prefix(update_prefix(r2[1], u), v), u, v)
      after_stamp_v(s2) ==
        IF is_stamped(s2, neg(u)) THEN assign(s2, v)
        ELSE after_tc1_vu(add_tc1(s2, v, u))
      after_tc1_uv(r1) ==
        IF ~r1[2] THEN r1[1] ELSE after_stamp_v(set_bstamps(r1[1], neg(v)))
      after_stamp_u(s1) ==
        IF is_stamped(s1, neg(v)) THEN assign(s1, u)
        ELSE IF is_stamped(s1, v) THEN s1
        ELSE after_tc1_uv(add_tc1(s1, u, v))
  IN after_stamp_u(set_bstamps(s, neg(u)))

\* ------------------------------------------------- watches (sat_watched.h)
\* A ternary watch keeps its two literals ordered by index; a clause watch
\* keeps a blocked literal and the clause offset (its index in m_clauses).
watched_ternary(l1, l2) ==
  [kind |-> "TERNARY", lit1 |-> Min2(l1, l2), lit2 |-> Max2(l1, l2), off |-> 0]
watched_clause(blocked, cls_off) ==
  [kind |-> "CLAUSE", lit1 |-> blocked, lit2 |-> null_literal, off |-> cls_off]

SetMin(S) == CHOOSE x \in S : \A y \in S : x <= y
erase_at(wl, i) == SubSeq(wl, 1, i - 1) \o SubSeq(wl, i + 1, Len(wl))

erase_clause_watch(wl, cls_off) ==
  LET I == {i \in 1 .. Len(wl) : wl[i].kind = "CLAUSE" /\ wl[i].off = cls_off}
  IN IF I = {} THEN wl ELSE erase_at(wl, SetMin(I))

erase_ternary_watch(wl, l1, l2) ==
  LET I == {i \in 1 .. Len(wl) : wl[i] = watched_ternary(l1, l2)}
  IN IF I = {} THEN wl ELSE erase_at(wl, SetMin(I))

\* ------------------------------------------------------ clause management
attach_ternary(s, l1, l2, l3) ==
  LET w1 == [s.m_watches EXCEPT ![neg(l1)] = Append(@, watched_ternary(l2, l3))]
      w2 == [w1 EXCEPT ![neg(l2)] = Append(@, watched_ternary(l1, l3))]
      w3 == [w2 EXCEPT ![neg(l3)] = Append(@, watched_ternary(l1, l2))]
  IN [s EXCEPT !.m_watches = w3]

\* Clause literals are indexed from 1: c[k] in the source is c[k + 1] here.
attach_clause(s, cls_off) ==
  LET c == s.m_clauses[cls_off]
  IN IF Len(c) = 3 THEN attach_ternary(s, c[1], c[2], c[3])
     ELSE LET block_lit == c[(Len(c) \div 4) + 1]
              w1 == [s.m_watches EXCEPT ![neg(c[1])] =
                       Append(@, watched_clause(block_lit, cls_off))]
              w2 == [w1 EXCEPT ![neg(c[2])] =
                       Append(@, watched_clause(block_lit, cls_off))]
          IN [s EXCEPT !.m_watches = w2]

detach_clause(s, cls_off) ==
  LET c == s.m_clauses[cls_off]
      w1 == [s.m_watches EXCEPT ![neg(c[1])] = erase_clause_watch(@, cls_off)]
      w2 == [w1 EXCEPT ![neg(c[2])] = erase_clause_watch(@, cls_off)]
  IN [s EXCEPT !.m_retired_clauses = Append(@, cls_off), !.m_watches = w2]

detach_ternary(s, l1, l2, l3) ==
  LET w1 == [s.m_watches EXCEPT ![neg(l2)] = erase_ternary_watch(@, l1, l3)]
      w2 == [w1 EXCEPT ![neg(l3)] = erase_ternary_watch(@, l1, l2)]
  IN [s EXCEPT !.m_retired_ternary = Append(@, << l1, l2, l3 >>),
               !.m_watches = w2]

\* ----------------------------------------------------------- propagation
Scale == 1000
fp_mul(a, b) == (a * b) \div Scale
wnb_epsilon == 1

propagated(s, l) ==
  LET s1 == assign(s, l)
  IN IF s.m_search_mode = "lookahead1"
     THEN [s1 EXCEPT !.m_wstack = Append(@, l)]
     ELSE s1

\* propagate_ternary that retires a reduced ternary in every search mode.
propagate_ternary_retires(s, l, w) ==
  LET l1 == w.lit1
      l2 == w.lit2
  IN IF is_fixed(s, l1)
     THEN IF is_false(s, l1)
          THEN IF is_undef(s, l2) THEN << propagated(s, l2), TRUE >>
               ELSE IF is_false(s, l2) THEN << set_conflict(s), TRUE >>
               ELSE << s, TRUE >>
          ELSE << s, TRUE >>
     ELSE IF is_fixed(s, l2)
     THEN IF is_false(s, l2) THEN << propagated(s, l1), TRUE >>
          ELSE << s, TRUE >>
     ELSE << try_add_binary(detach_ternary(s, neg(l), l1, l2), l1, l2),
             FALSE >>

\* One TERNARY watch of literal l: << state, keep >>.
propagate_ternary(s, l, w) ==
  LET l1 == w.lit1
      l2 == w.lit2
  IN IF is_fixed(s, l1)
     THEN IF is_false(s, l1)
          THEN IF is_undef(s, l2) THEN << propagated(s, l2), TRUE >>
               ELSE IF is_false(s, l2) THEN << set_conflict(s), TRUE >>
               ELSE << s, TRUE >>
          ELSE << s, TRUE >>
     ELSE IF is_fixed(s, l2)
     THEN IF is_false(s, l2) THEN << propagated(s, l1), TRUE >>
          ELSE << s, TRUE >>
     ELSE IF s.m_search_mode = "searching"
          THEN << try_add_binary(detach_ternary(s, neg(l), l1, l2), l1, l2),
                  FALSE >>
          ELSE IF s.m_search_mode = "lookahead1"
          THEN << [s EXCEPT !.m_weighted_new_binaries =
                     @ + fp_mul(s.m_heur[l1], s.m_heur[l2])], TRUE >>
          ELSE << s, TRUE >>

\* Position (from 3 on) of the first literal of c that is not false, or 0.
first_non_false(s, c, from) ==
  LET I == {j \in from .. Len(c) : ~is_false(s, c[j])}
  IN IF I = {} THEN 0 ELSE SetMin(I)

\* One CLAUSE watch of literal l: << state, kept watch or << >> >>.
\* nary_moved: a non-false literal was found at position j and has been
\* swapped into c[1] (state s2, clause c2).
nary_moved(s2, l, cls_off, c2, found) ==
  IF ~found /\ is_undef(s2, c2[2]) /\ is_undef(s2, c2[1])
  THEN IF s2.m_search_mode = "searching"
       THEN << try_add_binary(detach_clause(s2, cls_off), c2[1], c2[2]),
               << >> >>
       ELSE IF s2.m_search_mode = "lookahead1"
       THEN << [s2 EXCEPT !.m_weighted_new_binaries =
                  @ + fp_mul(s2.m_heur[c2[1]], s2.m_heur[c2[2]])], << >> >>
       ELSE << s2, << >> >>
  ELSE IF found /\ s2.m_search_mode = "lookahead1"
          /\ s2.m_weighted_new_binaries = 0
          /\ ~(\E k \in 3 .. Len(c2) : is_true(s2, c2[k]))
       THEN << [s2 EXCEPT !.m_weighted_new_binaries = wnb_epsilon], << >> >>
       ELSE << s2, << >> >>

\* nary_move that swaps the literals and leaves the new watch out.
nary_move_unwatched(s1, l, cls_off, c1, j) ==
  nary_moved([s1 EXCEPT
                !.m_clauses[cls_off] = [c1 EXCEPT ![2] = c1[j], ![j] = neg(l)]],
             l, cls_off, [c1 EXCEPT ![2] = c1[j], ![j] = neg(l)],
             first_non_false(s1, c1, j + 1) # 0)

nary_move(s1, l, cls_off, c1, j) ==
  nary_moved([s1 EXCEPT
                !.m_clauses[cls_off] = [c1 EXCEPT ![2] = c1[j], ![j] = neg(l)],
                !.m_watches[neg(c1[j])] =
                    Append(@, watched_clause(c1[1], cls_off))],
             l, cls_off, [c1 EXCEPT ![2] = c1[j], ![j] = neg(l)],
             first_non_false(s1, c1, j + 1) # 0)

nary_scan(s1, l, w, c1, j) ==
  IF j # 0 THEN nary_move(s1, l, w.off, c1, j)
  ELSE IF is_false(s1, c1[1]) THEN << set_conflict(s1), << w >> >>
  ELSE << propagated(s1, c1[1]), << w >> >>

nary_swapped(s, l, w, c1) ==
  IF is_true(s, c1[1])
  THEN << [s EXCEPT !.m_clauses[w.off] = c1], << [w EXCEPT !.lit1 = c1[1]] >> >>
  ELSE nary_scan([s EXCEPT !.m_clauses[w.off] = c1], l, w, c1,
                 first_non_false(s, c1, 3))

nary_swap(c0, l) ==
  IF c0[1] = neg(l) THEN [c0 EXCEPT ![1] = c0[2], ![2] = c0[1]] ELSE c0

propagate_nary(s, l, w) ==
  IF is_true(s, w.lit1) THEN << s, << w >> >>
  ELSE nary_swapped(s, l, w, nary_swap(s.m_clauses[w.off], l))

\* The walk of the watch list that goes on after a conflict.
RECURSIVE propagate_clauses_loop_past_conflict(_, _, _, _, _)
propagate_clauses_loop_past_conflict(s, l, wl, i, kept) ==
  LET after_ternary(r) ==
        propagate_clauses_loop_past_conflict(r[1], l, wl, i + 1,
          IF r[2] THEN Append(kept, wl[i]) ELSE kept)
      after_nary(r) ==
        propagate_clauses_loop_past_conflict(r[1], l, wl, i + 1, kept \o r[2])
  IN IF i > Len(wl)
     THEN [s EXCEPT !.m_watches[l] = kept]
     ELSE IF wl[i].kind = "TERNARY"
     THEN after_ternary(propagate_ternary(s, l, wl[i]))
     ELSE after_nary(propagate_nary(s, l, wl[i]))

\* The watch list of l is walked once, compacting kept entries (it2); after
\* a conflict the remaining entries are copied unchanged.
RECURSIVE propagate_clauses_loop(_, _, _, _, _)
propagate_clauses_loop(s, l, wl, i, kept) ==
  LET after_ternary(r) ==
        propagate_clauses_loop(r[1], l, wl, i + 1,
          IF r[2] THEN Append(kept, wl[i]) ELSE kept)
      after_nary(r) ==
        propagate_clauses_loop(r[1], l, wl, i + 1, kept \o r[2])
  IN IF i > Len(wl) \/ s.m_inconsistent
     THEN [s EXCEPT !.m_watches[l] = kept \o SubSeq(wl, i, Len(wl))]
     ELSE IF wl[i].kind = "TERNARY"
     THEN after_ternary(propagate_ternary(s, l, wl[i]))
     ELSE after_nary(propagate_nary(s, l, wl[i]))

propagate_clauses(s, l) ==
  IF s.m_inconsistent THEN s
  ELSE propagate_clauses_loop(s, l, s.m_watches[l], 1, << >>)

RECURSIVE propagate_binary_loop(_, _, _, _)
propagate_binary_loop(s, l, i, sz) ==
  IF s.m_inconsistent \/ i > sz THEN s
  ELSE propagate_binary_loop(assign(s, s.m_binary[l][i]), l, i + 1, sz)

\* propagate_binary reading the adjacency list of the complement.
propagate_binary_of_complement(s, l) ==
  propagate_binary_loop(s, neg(l), 1, Len(s.m_binary[neg(l)]))

propagate_binary(s, l) == propagate_binary_loop(s, l, 1, Len(s.m_binary[l]))

\* The binary pass of propagate() left out.
propagate_pass1_skipped(s, i, sz) == s

\* Trail positions are indexed from 1: m_qhead = k means k literals done.
RECURSIVE propagate_pass1(_, _, _)
propagate_pass1(s, i, sz) ==
  IF i > sz \/ s.m_inconsistent THEN s
  ELSE propagate_pass1(propagate_binary(s, s.m_trail[i]), i + 1, sz)

RECURSIVE propagate_pass2(_, _, _)
propagate_pass2(s, i, sz) ==
  IF i > sz \/ s.m_inconsistent THEN s
  ELSE propagate_pass2(propagate_clauses(s, s.m_trail[i]), i + 1, sz)

\* propagate that runs the binary pass only.
RECURSIVE propagate_binaries_only(_)
propagate_binaries_only(s) ==
  IF s.m_inconsistent \/ s.m_qhead >= Len(s.m_trail) THEN s
  ELSE LET sz == Len(s.m_trail)
           s1 == propagate_pass1(s, s.m_qhead + 1, sz)
       IN propagate_binaries_only([s1 EXCEPT !.m_qhead = sz])

RECURSIVE propagate(_)
propagate(s) ==
  IF s.m_inconsistent \/ s.m_qhead >= Len(s.m_trail) THEN s
  ELSE LET sz == Len(s.m_trail)
           s1 == propagate_pass1(s, s.m_qhead + 1, sz)
           s2 == propagate_pass2(s1, s.m_qhead + 1, sz)
       IN propagate([s2 EXCEPT !.m_qhead = sz])

\* ------------------------------------------------------------ scoped state
\* scoped_level: run Body at level lvl, then restore the saved level.
with_level(s, lvl) == [s EXCEPT !.m_level = lvl]
restore_level(s, saved) == [s EXCEPT !.m_level = saved.m_level]

\* push that records the trail length after the decision is on the trail.
push_marks_after_assign(s, lit, level) ==
  LET s1 == [s EXCEPT
               !.m_binary_trail_lim = Append(@, Len(s.m_binary_trail)),
               !.m_trail_lim = Append(@, Len(s.m_trail) + 1),
               !.m_num_tc1_lim = Append(@, s.m_num_tc1),
               !.m_retired_clause_lim = Append(@, Len(s.m_retired_clauses)),
               !.m_retired_ternary_lim = Append(@, Len(s.m_retired_ternary)),
               !.m_qhead_lim = Append(@, s.m_qhead),
               !.m_assumptions = Append(@, neg(lit))]
      s2 == propagate(assign(with_level(s1, level), lit))
  IN restore_level(s2, s)

push(s, lit, level) ==
  LET s1 == [s EXCEPT
               !.m_binary_trail_lim = Append(@, Len(s.m_binary_trail)),
               !.m_trail_lim = Append(@, Len(s.m_trail)),
               !.m_num_tc1_lim = Append(@, s.m_num_tc1),
               !.m_retired_clause_lim = Append(@, Len(s.m_retired_clauses)),
               !.m_retired_ternary_lim = Append(@, Len(s.m_retired_ternary)),
               !.m_qhead_lim = Append(@, s.m_qhead),
               !.m_assumptions = Append(@, neg(lit))]
      s2 == propagate(assign(with_level(s1, level), lit))
  IN restore_level(s2, s)

\* The undo loop of pop that puts back every variable but that of the
\* decision.
RECURSIVE pop_undo_trail_but_decision(_, _, _)
pop_undo_trail_but_decision(s, i, old_sz) ==
  IF i <= old_sz THEN s
  ELSE LET l == s.m_trail[i]
           s1 == set_undef(s, l)
       IN pop_undo_trail_but_decision(
            IF i = old_sz + 1 THEN s1
            ELSE [s1 EXCEPT !.m_freevars = freevars_insert(@, var(l))],
            i - 1, old_sz)

\* The undo loop of pop that goes down the whole trail, below the mark.
RECURSIVE pop_undo_trail_below_mark(_, _, _)
pop_undo_trail_below_mark(s, i, old_sz) ==
  IF i <= 0 THEN s
  ELSE LET l == s.m_trail[i]
           s1 == set_undef(s, l)
       IN pop_undo_trail_below_mark(
            [s1 EXCEPT !.m_freevars = freevars_insert(@, var(l))],
            i - 1, old_sz)

RECURSIVE pop_undo_trail(_, _, _)
pop_undo_trail(s, i, old_sz) ==
  IF i <= old_sz THEN s
  ELSE LET l == s.m_trail[i]
           s1 == set_undef(s, l)
       IN pop_undo_trail(
            [s1 EXCEPT !.m_freevars = freevars_insert(@, var(l))],
            i - 1, old_sz)

RECURSIVE pop_unretire_clauses(_, _)
pop_unretire_clauses(s, i) ==
  IF i > Len(s.m_retired_clauses) THEN s
  ELSE pop_unretire_clauses(attach_clause(s, s.m_retired_clauses[i]), i + 1)

RECURSIVE pop_unretire_ternary(_, _)
pop_unretire_ternary(s, i) ==
  IF i > Len(s.m_retired_ternary) THEN s
  ELSE LET t == s.m_retired_ternary[i]
       IN pop_unretire_ternary(attach_ternary(s, t[1], t[2], t[3]), i + 1)

\* The loop of pop() over the binary trail, stopping one entry early.
RECURSIVE pop_del_binaries_but_first(_, _, _)
pop_del_binaries_but_first(s, i, old_sz) ==
  IF i <= old_sz + 1 THEN s
  ELSE pop_del_binaries_but_first(del_binary(s, s.m_binary_trail[i]),
                                  i - 1, old_sz)

RECURSIVE pop_del_binaries(_, _, _)
pop_del_binaries(s, i, old_sz) ==
  IF i <= old_sz THEN s
  ELSE pop_del_binaries(del_binary(s, s.m_binary_trail[i]), i - 1, old_sz)

\* pop that shrinks the trail and leaves its mark on m_trail_lim.
pop_keeps_trail_mark(s) ==
  LET restore_qhead(s7) ==
        [s7 EXCEPT !.m_qhead = Last(s7.m_qhead_lim), !.m_qhead_lim = Front(@)]
      remove_binaries(s6) ==
        [pop_del_binaries(s6, Len(s6.m_binary_trail),
                          Last(s6.m_binary_trail_lim))
           EXCEPT !.m_binary_trail = Shrink(@, Last(s6.m_binary_trail_lim)),
                  !.m_binary_trail_lim = Front(@)]
      unretire_ternary(s4) ==
        [pop_unretire_ternary(s4, Last(s4.m_retired_ternary_lim) + 1)
           EXCEPT !.m_retired_ternary =
                      Shrink(@, Last(s4.m_retired_ternary_lim)),
                  !.m_retired_ternary_lim = Front(@)]
      unretire_clauses(s2) ==
        [pop_unretire_clauses(s2, Last(s2.m_retired_clause_lim) + 1)
           EXCEPT !.m_retired_clauses =
                      Shrink(@, Last(s2.m_retired_clause_lim)),
                  !.m_retired_clause_lim = Front(@)]
      restore_tc1(s1) ==
        [s1 EXCEPT !.m_num_tc1 = Last(s1.m_num_tc1_lim),
                   !.m_num_tc1_lim = Front(@)]
      unassign(s0) ==
        [pop_undo_trail(s0, Len(s0.m_trail), Last(s0.m_trail_lim))
           EXCEPT !.m_trail = Shrink(@, Last(s0.m_trail_lim))]
  IN restore_qhead(remove_binaries(unretire_ternary(unretire_clauses(
       restore_tc1(unassign(
         [s EXCEPT !.m_assumptions = Front(@),
                   !.m_inconsistent = FALSE]))))))

\* pop in the order of the source: assumption and conflict flag, trail,
\* tc1 counter, retired clauses, retired ternaries, binaries, qhead.
pop(s) ==
  LET restore_qhead(s7) ==
        [s7 EXCEPT !.m_qhead = Last(s7.m_qhead_lim), !.m_qhead_lim = Front(@)]
      remove_binaries(s6) ==
        [pop_del_binaries(s6, Len(s6.m_binary_trail),
                          Last(s6.m_binary_trail_lim))
           EXCEPT !.m_binary_trail = Shrink(@, Last(s6.m_binary_trail_lim)),
                  !.m_binary_trail_lim = Front(@)]
      unretire_ternary(s4) ==
        [pop_unretire_ternary(s4, Last(s4.m_retired_ternary_lim) + 1)
           EXCEPT !.m_retired_ternary =
                      Shrink(@, Last(s4.m_retired_ternary_lim)),
                  !.m_retired_ternary_lim = Front(@)]
      unretire_clauses(s2) ==
        [pop_unretire_clauses(s2, Last(s2.m_retired_clause_lim) + 1)
           EXCEPT !.m_retired_clauses =
                      Shrink(@, Last(s2.m_retired_clause_lim)),
                  !.m_retired_clause_lim = Front(@)]
      restore_tc1(s1) ==
        [s1 EXCEPT !.m_num_tc1 = Last(s1.m_num_tc1_lim),
                   !.m_num_tc1_lim = Front(@)]
      unassign(s0) ==
        [pop_undo_trail(s0, Len(s0.m_trail), Last(s0.m_trail_lim))
           EXCEPT !.m_trail = Shrink(@, Last(s0.m_trail_lim)),
                  !.m_trail_lim = Front(@)]
  IN restore_qhead(remove_binaries(unretire_ternary(unretire_clauses(
       restore_tc1(unassign(
         [s EXCEPT !.m_assumptions = Front(@),
                   !.m_inconsistent = FALSE]))))))

\* push_lookahead2 returns << state, unsat >>.
push_lookahead2(s, lit, level) ==
  LET leave(s2) ==
        << restore_level([s2 EXCEPT !.m_search_mode = "lookahead1",
                                    !.m_inconsistent = FALSE], s),
           s2.m_inconsistent >>
  IN leave(propagate(assign(
       [with_level(s, level) EXCEPT !.m_search_mode = "lookahead2"], lit)))

push_lookahead1(s, lit, level) ==
  LET s1 == [with_level(s, level) EXCEPT !.m_search_mode = "lookahead1"]
  IN restore_level(propagate(assign(s1, lit)), s)

\* pop_lookahead1 with the loop over m_wstack left out.
add_windfalls_skipped(s, nlit, i) == s

RECURSIVE add_windfalls(_, _, _)
add_windfalls(s, nlit, i) ==
  IF i > Len(s.m_wstack) THEN s
  ELSE add_windfalls(add_binary(s, nlit, s.m_wstack[i]), nlit, i + 1)

pop_lookahead1(s, lit) ==
  LET unsat == s.m_inconsistent
      s1 == [s EXCEPT !.m_inconsistent = FALSE, !.m_search_mode = "searching"]
      s2 == IF ~unsat THEN add_windfalls(s1, neg(lit), 1) ELSE s1
  IN [s2 EXCEPT !.m_wstack = << >>]

\* ---------------------------------------------------------- initialization
\* The binary clauses of the main solver are read off its watch lists:
\* list l_idx holds, in creation order, the clauses that contain
\* l = ~to_literal(l_idx); a clause is copied from the list of its smaller
\* literal only.  binary_watches lists the calls of add_binary in order.
RECURSIVE wlist_binaries(_, _, _)
wlist_binaries(bins, l, i) ==
  IF i > Len(bins) THEN << >>
  ELSE (IF bins[i][1] = l /\ l < bins[i][2] THEN << << l, bins[i][2] >> >>
        ELSE IF bins[i][2] = l /\ l < bins[i][1] THEN << << l, bins[i][1] >> >>
        ELSE << >>) \o wlist_binaries(bins, l, i + 1)

RECURSIVE binary_watches(_, _)
binary_watches(bins, l_idx) ==
  IF l_idx >= 2 * NumVars THEN << >>
  ELSE wlist_binaries(bins, neg(l_idx), 1) \o binary_watches(bins, l_idx + 1)

RECURSIVE init_binaries(_, _, _)
init_binaries(s, pairs, i) ==
  IF i > Len(pairs) THEN s
  ELSE init_binaries(add_binary(s, pairs[i][1], pairs[i][2]), pairs, i + 1)

RECURSIVE copy_clauses(_, _, _)
copy_clauses(s, clauses, i) ==
  IF i > Len(clauses) THEN s
  ELSE LET s1 == [s EXCEPT !.m_clauses = Append(@, clauses[i])]
       IN copy_clauses(attach_clause(s1, Len(s1.m_clauses)), clauses, i + 1)

\* The init_var loop: m_freevars.insert(v) for v = 0 .. n - 1.
RECURSIVE init_vars(_)
init_vars(n) ==
  IF n = 0 THEN << >> ELSE freevars_insert(init_vars(n - 1), n - 1)

RECURSIVE init_units(_, _, _)
init_units(s, units, i) ==
  IF i > Len(units) THEN s
  ELSE init_units(assign(s, units[i]), units, i + 1)

init(s, bins, clauses, units) ==
  LET s1 == [s EXCEPT
               !.m_delta_trigger = (NumVars \div 10) * Scale,
               !.m_inconsistent = FALSE,
               !.m_qhead = 0,
               !.m_bstamp_id = 0,
               !.m_binary = table([l \in Lits |-> << >>]),
               !.m_watches = table([l \in Lits |-> << >>]),
               !.m_bstamp = table([l \in Lits |-> 0]),
               !.m_stamp = table([v \in Vars |-> 0]),
               !.m_lits = table([l \in Lits |->
                                   [m_wnb |-> 0, m_double_lookahead |-> 0]]),
               !.m_rating = table([v \in Vars |-> 0]),
               !.m_vprefix = table([v \in Vars |-> [m_prefix |-> {}, m_length |-> 0]]),
               !.m_freevars = init_vars(NumVars)]
      s2 == init_binaries(s1, binary_watches(bins, 0), 1)
      s3 == copy_clauses(s2, clauses, 1)
      s4 == init_units(s3, units, 1)
      s5 == propagate(s4)
  IN [s5 EXCEPT !.m_qhead = Len(s5.m_trail)]

init_search(s, bins, clauses, units) ==
  LET s1 == with_level([s EXCEPT !.m_search_mode = "searching"], c_fixed_truth)
  IN restore_level(init(s1, bins, clauses, units), s)

\* ----------------------------------------------------------- pre-selection
\* is_sat that looks at the binary clauses only.
is_sat_binary_only(s) ==
  \A i \in 1 .. Len(s.m_freevars) :
    LET l == mk_literal(s.m_freevars[i], FALSE)
    IN /\ \A k \in 1 .. Len(s.m_binary[l]) : is_true(s, s.m_binary[l][k])
       /\ \A k \in 1 .. Len(s.m_binary[neg(l)]) :
            is_true(s, s.m_binary[neg(l)][k])

is_sat(s) ==
  /\ \A i \in 1 .. Len(s.m_freevars) :
       LET l == mk_literal(s.m_freevars[i], FALSE)
       IN /\ \A k \in 1 .. Len(s.m_binary[l]) : is_true(s, s.m_binary[l][k])
          /\ \A k \in 1 .. Len(s.m_binary[neg(l)]) :
               is_true(s, s.m_binary[neg(l)][k])
  /\ \A i \in 1 .. Len(s.m_clauses) :
       \E j \in 1 .. Len(s.m_clauses[i]) : is_true(s, s.m_clauses[i][j])

is_unsat(s) ==
  \E i \in 1 .. Len(s.m_clauses) :
    \A j \in 1 .. Len(s.m_clauses[i]) : is_false(s, s.m_clauses[i][j])

\* init_pre_selection: the H-score iteration is replaced by the input table;
\* as in h_scores only the entries of free variables are written, and
\* m_rating[v] = pos * neg.
init_pre_selection(s, level, heur) ==
  LET free == Range(s.m_freevars)
  IN [s EXCEPT
        !.m_heur = table([l \in Lits |->
                            IF var(l) \in free THEN heur[l] ELSE s.m_heur[l]]),
        !.m_rating = table([v \in Vars |->
                              IF v \in free
                              THEN fp_mul(heur[mk_literal(v, FALSE)],
                                          heur[mk_literal(v, TRUE)])
                              ELSE s.m_rating[v]])]

candidate(v, r) == [m_var |-> v, m_rating |-> r]

\* The loop of init_candidates without the test of m_select_lookahead_vars.
RECURSIVE init_candidates_loop_unrestricted(_, _, _, _, _)
init_candidates_loop_unrestricted(s, newbies, i, cands, sum) ==
  IF i > Len(s.m_freevars) THEN << cands, sum >>
  ELSE LET x == s.m_freevars[i]
       IN IF newbies \/ active_prefix(s, x)
          THEN init_candidates_loop_unrestricted(s, newbies, i + 1,
                 Append(cands, candidate(x, s.m_rating[x])),
                 sum + s.m_rating[x])
          ELSE init_candidates_loop_unrestricted(s, newbies, i + 1, cands, sum)

\* init_candidates returns << candidates, sum >>.
RECURSIVE init_candidates_loop(_, _, _, _, _)
init_candidates_loop(s, newbies, i, cands, sum) ==
  IF i > Len(s.m_freevars) THEN << cands, sum >>
  ELSE LET x == s.m_freevars[i]
       IN IF IF s.m_select_lookahead_vars # {}
             THEN x \in s.m_select_lookahead_vars
             ELSE newbies \/ active_prefix(s, x)
          THEN init_candidates_loop(s, newbies, i + 1,
                 Append(cands, candidate(x, s.m_rating[x])),
                 sum + s.m_rating[x])
          ELSE init_candidates_loop(s, newbies, i + 1, cands, sum)

init_candidates(s, level, newbies) ==
  init_candidates_loop(s, newbies, 1, << >>, 0)

\* sift_up(j) on the candidate array (positions from 0 in the source).
RECURSIVE sift_up_loop(_, _, _, _)
sift_up_loop(cands, c, i, k) ==
  IF k >= Len(cands) THEN << cands, i >>
  ELSE LET k1 == IF k + 1 < Len(cands)
                    /\ cands[k + 1].m_rating < cands[k + 2].m_rating
                 THEN k + 1 ELSE k
       IN IF c.m_rating <= cands[k1 + 1].m_rating THEN << cands, i >>
          ELSE sift_up_loop([cands EXCEPT ![i + 1] = cands[k1 + 1]],
                            c, k1, 2 * k1 + 1)

sift_up(cands, j) ==
  LET c == cands[j + 1]
      r == sift_up_loop(cands, c, j, 2 * j + 1)
  IN IF r[2] > j THEN [r[1] EXCEPT ![r[2] + 1] = c] ELSE r[1]

\* The inner for loop of the mean cut: << candidates, sum, progress >>.
RECURSIVE prune_pass(_, _, _, _, _, _)
prune_pass(cands, i, mean_num, mean_den, sum, max_num_cand) ==
  LET removed(r) == << r[1], r[2], TRUE >>
  IN IF ~(i < Len(cands) /\ Len(cands) >= max_num_cand * 2)
     THEN << cands, sum, FALSE >>
     ELSE IF cands[i + 1].m_rating * mean_den >= mean_num
     THEN prune_pass(cands, i + 1, mean_num, mean_den,
                     sum + cands[i + 1].m_rating, max_num_cand)
     ELSE removed(prune_pass(Front([cands EXCEPT ![i + 1] = Last(cands)]),
                             i, mean_num, mean_den, sum, max_num_cand))

\* mean = sum / (size + 0.0001), compared exactly as a fraction.
RECURSIVE prune_loop(_, _, _, _)
prune_loop(cands, sum, progress, max_num_cand) ==
  LET again(r) == prune_loop(r[1], r[2], r[3], max_num_cand)
  IN IF ~(progress /\ Len(cands) >= max_num_cand * 2) THEN cands
     ELSE again(prune_pass(cands, 0, sum * 10000, Len(cands) * 10000 + 1, 0,
                           max_num_cand))

RECURSIVE heapify(_, _)
heapify(cands, j) ==
  IF j = 0 THEN cands ELSE heapify(sift_up(cands, j - 1), j - 1)

RECURSIVE heap_cut(_, _)
heap_cut(cands, max_num_cand) ==
  LET c1 == Front([cands EXCEPT ![1] = Last(cands)])
  IN IF Len(c1) = max_num_cand THEN c1
     ELSE heap_cut(sift_up(c1, 0), max_num_cand)

\* select returns << state, "true" | "false" | "loop" >>; "loop" is the
\* candidate-gathering loop going round with newbies = true for ever.
select(s0, level, heur) ==
  LET max_num_cand(s) ==
        Max2(min_cutoff,
             IF level = 0 THEN Len(s.m_freevars)
             ELSE Max2(level_cand, Len(s.m_freevars) \div 50) \div level)
      heap(c1, mx) ==
        IF Len(c1) > mx THEN heap_cut(heapify(c1, Len(c1) \div 2), mx) ELSE c1
      cut(s, r) ==
        << [s EXCEPT !.m_candidates =
              heap(prune_loop(r[1], r[2], TRUE, max_num_cand(s)),
                   max_num_cand(s))],
           "true" >>
      newbies(s, r2) ==
        IF r2[1] = << >> THEN << [s EXCEPT !.m_candidates = << >>], "loop" >>
        ELSE cut(s, r2)
      gather(s, r1) ==
        IF r1[1] # << >> THEN cut(s, r1)
        ELSE IF is_sat(s) THEN << [s EXCEPT !.m_candidates = << >>], "false" >>
        ELSE newbies(s, init_candidates(s, level, TRUE))
      start(s) == gather(s, init_candidates(s, level, FALSE))
  IN start(init_pre_selection(s0, level, heur))

\* ------------------------------------------------- implication graph (SCC)
dfs_info_reset ==
  [m_rank |-> 0, m_height |-> 0, m_parent |-> null_literal, m_next |-> << >>,
   m_nextp |-> 0, m_link |-> null_literal, m_min |-> null_literal,
   m_vcomp |-> null_literal]

get_rank(s, v) == s.m_dfs[v].m_rank
get_min(s, v) == s.m_dfs[v].m_min
get_parent(s, u) == s.m_dfs[u].m_parent
get_link(s, u) == s.m_dfs[u].m_link
get_vcomp(s, u) == s.m_dfs[u].m_vcomp
get_height(s, u) == s.m_dfs[u].m_height
get_rating(s, l) == s.m_rating[var(l)]
has_arc(s, v) == Len(s.m_dfs[v].m_next) > s.m_dfs[v].m_nextp
set_rank(s, v, r) == [s EXCEPT !.m_dfs[v].m_rank = r]
set_min(s, v, u) == [s EXCEPT !.m_dfs[v].m_min = u]
set_parent(s, v, p) == [s EXCEPT !.m_dfs[v].m_parent = p]
set_link(s, v, u) == [s EXCEPT !.m_dfs[v].m_link = u]
set_vcomp(s, v, u) == [s EXCEPT !.m_dfs[v].m_vcomp = u]
set_height(s, v, h) == [s EXCEPT !.m_dfs[v].m_height = h]
add_arc(s, u, v) == [s EXCEPT !.m_dfs[u].m_next = Append(@, v)]

RECURSIVE init_dfs_infos(_, _)
init_dfs_infos(s, i) ==
  LET reset(s0, lit) == set_bstamp([s0 EXCEPT !.m_dfs[lit] = dfs_info_reset], lit)
      lit == mk_literal(s.m_candidates[i].m_var, FALSE)
  IN IF i > Len(s.m_candidates) THEN s
     ELSE init_dfs_infos(reset(reset(s, lit), neg(lit)), i + 1)

\* init_arcs that adds each arc in both directions.
RECURSIVE init_arcs_both_ways(_, _, _)
init_arcs_both_ways(s, l, i) ==
  IF i > Len(s.m_binary[l]) THEN s
  ELSE LET u == s.m_binary[l][i]
       IN IF u > l /\ is_stamped(s, u)
          THEN init_arcs_both_ways(
                 add_arc(add_arc(add_arc(add_arc(s, neg(l), neg(u)), u, l),
                                 neg(u), neg(l)), l, u),
                 l, i + 1)
          ELSE init_arcs_both_ways(s, l, i + 1)

RECURSIVE init_arcs_loop(_, _, _)
init_arcs_loop(s, l, i) ==
  IF i > Len(s.m_binary[l]) THEN s
  ELSE LET u == s.m_binary[l][i]
       IN IF u > l /\ is_stamped(s, u)
          THEN init_arcs_loop(add_arc(add_arc(s, neg(l), neg(u)), u, l),
                              l, i + 1)
          ELSE init_arcs_loop(s, l, i + 1)

init_arcs(s, l) == init_arcs_loop(s, l, 1)

RECURSIVE init_all_arcs(_, _)
init_all_arcs(s, i) ==
  IF i > Len(s.m_candidates) THEN s
  ELSE LET lit == mk_literal(s.m_candidates[i].m_var, FALSE)
       IN init_all_arcs(init_arcs(init_arcs(s, lit), neg(lit)), i + 1)

init_scc(s) ==
  [init_all_arcs(init_dfs_infos(inc_bstamp(s), 1), 1)
     EXCEPT !.m_rank = 0, !.m_active = null_literal,
            !.m_settled = null_literal]

activate_scc(s, l) ==
  [set_min(set_link(set_rank(s, l, s.m_rank + 1), l, s.m_active), l, l)
     EXCEPT !.m_rank = s.m_rank + 1, !.m_active = l]

\* The while loop of found_scc over the active list: << state, best >>.
RECURSIVE found_scc_loop(_, _, _, _, _)
found_scc_loop(s, v, t, best, best_rating) ==
  LET next(s1) ==
        IF get_rating(s, t) > best_rating
        THEN found_scc_loop(s1, v, get_link(s1, t), t, get_rating(s, t))
        ELSE found_scc_loop(s1, v, get_link(s1, t), best, best_rating)
  IN IF t = v THEN << s, best >>
     ELSE IF t = neg(v) THEN << set_conflict(s), best >>
     ELSE next(set_parent(set_rank(s, t, UINT_MAX), t, v))

\* found_scc that does not raise the conflict when it meets ~v on the active
\* list.
found_scc_misses_conflict(s, v) ==
  LET complement(s4) ==
        IF get_rank(s4, neg(v)) = UINT_MAX
        THEN set_vcomp(s4, v, neg(get_vcomp(s4, get_parent(s4, neg(v)))))
        ELSE s4
      component(r) ==
        complement(set_vcomp(set_parent(
          [r[1] EXCEPT !.m_inconsistent = s.m_inconsistent], v, v), v, r[2]))
      settle(s2) ==
        [set_link(s2, v, s2.m_settled) EXCEPT !.m_settled = s.m_active]
  IN component(found_scc_loop(
       settle(set_rank([s EXCEPT !.m_active = get_link(s, v)], v, UINT_MAX)),
       v, s.m_active, v, get_rating(s, v)))

found_scc(s, v) ==
  LET complement(s4) ==
        IF get_rank(s4, neg(v)) = UINT_MAX
        THEN set_vcomp(s4, v, neg(get_vcomp(s4, get_parent(s4, neg(v)))))
        ELSE s4
      component(r) == complement(set_vcomp(set_parent(r[1], v, v), v, r[2]))
      settle(s2) ==
        [set_link(s2, v, s2.m_settled) EXCEPT !.m_settled = s.m_active]
  IN component(found_scc_loop(
       settle(set_rank([s EXCEPT !.m_active = get_link(s, v)], v, UINT_MAX)),
       v, s.m_active, v, get_rating(s, v)))

\* The do-while loop of get_scc(literal v).
RECURSIVE get_scc_dfs(_, _)
get_scc_dfs(s, v) ==
  LET ll == get_min(s, v)
      arc(s1, u) ==
        IF get_rank(s1, u) > 0
        THEN IF get_rank(s1, u) < get_rank(s1, ll)
             THEN << set_min(s1, v, u), v >>
             ELSE << s1, v >>
        ELSE << activate_scc(set_parent(s1, u, v), u), u >>
      retreat(u) ==
        IF v = ll THEN << found_scc(s, v), u >>
        ELSE IF get_rank(s, ll) < get_rank(s, get_min(s, u))
        THEN << set_min(s, u, ll), u >>
        ELSE << s, u >>
      continue(step) ==
        IF step[2] # null_literal /\ ~step[1].m_inconsistent
        THEN get_scc_dfs(step[1], step[2])
        ELSE step[1]
  IN continue(IF has_arc(s, v)
              THEN arc([s EXCEPT !.m_dfs[v].m_nextp = @ + 1],
                       s.m_dfs[v].m_next[s.m_dfs[v].m_nextp + 1])
              ELSE retreat(get_parent(s, v)))

get_scc_from(s, v) == get_scc_dfs(activate_scc(set_parent(s, v, null_literal), v), v)

RECURSIVE get_scc_loop(_, _, _)
get_scc_loop(s, i, num_candidates) ==
  LET visit(s0, lit) ==
        IF get_rank(s0, lit) = 0 THEN get_scc_from(s0, lit) ELSE s0
      lit == mk_literal(s.m_candidates[i].m_var, FALSE)
  IN IF i > num_candidates \/ s.m_inconsistent THEN s
     ELSE get_scc_loop(visit(visit(s, lit), neg(lit)), i + 1, num_candidates)

get_scc(s) == get_scc_loop(init_scc(s), 1, Len(s.m_candidates))

\* ------------------------------------------------------- lookahead forest
\* The child pointer shares storage with m_min; the forest root's child is
\* m_root_child.
get_child(s, u) == IF u = null_literal THEN s.m_root_child ELSE s.m_dfs[u].m_min
set_child(s, v, u) ==
  IF v = null_literal THEN [s EXCEPT !.m_root_child = u]
  ELSE [s EXCEPT !.m_dfs[v].m_min = u]

\* The loop over the arcs of ~u in find_heights: << h, w >>.
RECURSIVE find_heights_arcs(_, _, _, _, _, _)
find_heights_arcs(s, u, p, j, h, w) ==
  IF j > Len(s.m_dfs[neg(u)].m_next) THEN << h, w >>
  ELSE LET v == neg(s.m_dfs[neg(u)].m_next[j])
           pv == get_parent(s, v)
       IN IF pv = p THEN find_heights_arcs(s, u, p, j + 1, h, w)
          ELSE IF get_height(s, pv) >= h
          THEN find_heights_arcs(s, u, p, j + 1, get_height(s, pv) + 1, pv)
          ELSE find_heights_arcs(s, u, p, j + 1, h, w)

RECURSIVE find_heights_loop(_, _, _, _, _)
find_heights_loop(s, u, pp, h, w) ==
  LET uu == get_link(s, u)
      p == get_parent(s, u)
      place(h1, w1) ==
        set_child(
          set_link(set_child(set_height(s, u, h1), u, null_literal),
                   u, get_child(s, w1)),
          w1, u)
      after_arcs(r) ==
        IF p = u THEN find_heights_loop(place(r[1], r[2]), uu, p, r[1], r[2])
        ELSE find_heights_loop(s, uu, p, r[1], r[2])
  IN IF u = null_literal THEN s
     ELSE after_arcs(find_heights_arcs(s, u, p, 1,
                                       IF p # pp THEN 0 ELSE h,
                                       IF p # pp THEN null_literal ELSE w))

find_heights(s) ==
  find_heights_loop([s EXCEPT !.m_root_child = null_literal], s.m_settled,
                    null_literal, 0, null_literal)

lookahead_entry(l, o) == [m_lit |-> l, m_offset |-> o]

\* The inner loop of construct_lookahead_table that keeps the offset when it
\* climbs to the parent.
RECURSIVE table_climb_keeps_offset(_, _, _, _)
table_climb_keeps_offset(s, u, v, offset) ==
  LET up(s2) ==
        IF get_link(s2, u) = null_literal /\ v # null_literal
        THEN table_climb_keeps_offset(s2, v, get_parent(s2, v), offset)
        ELSE << s2, get_link(s2, u), v, offset + 2 >>
  IN up(set_parent(
          [s EXCEPT !.m_lookahead[get_rank(s, u) + 1].m_offset = offset], u,
          IF v = null_literal THEN v ELSE get_vcomp(s, v)))

\* The inner while(true) of construct_lookahead_table: << state, u, v, offset >>.
RECURSIVE table_climb(_, _, _, _)
table_climb(s, u, v, offset) ==
  LET up(s2) ==
        IF get_link(s2, u) = null_literal /\ v # null_literal
        THEN table_climb(s2, v, get_parent(s2, v), offset + 2)
        ELSE << s2, get_link(s2, u), v, offset + 2 >>
  IN up(set_parent(
          [s EXCEPT !.m_lookahead[get_rank(s, u) + 1].m_offset = offset], u,
          IF v = null_literal THEN v ELSE get_vcomp(s, v)))

\* construct_lookahead_table that enters the complement of each literal.
RECURSIVE table_loop_of_complements(_, _, _, _)
table_loop_of_complements(s, u, v, offset) ==
  LET after_climb(r) == table_loop_of_complements(r[1], r[2], r[3], r[4])
      entered(s2) ==
        IF get_child(s2, u) # null_literal
        THEN table_loop_of_complements(set_parent(s2, u, v), get_child(s2, u),
                                       u, offset)
        ELSE after_climb(table_climb(s2, u, v, offset))
  IN IF u = null_literal THEN s
     ELSE entered([set_rank(s, u, Len(s.m_lookahead)) EXCEPT
                     !.m_lookahead =
                         Append(@, lookahead_entry(neg(get_vcomp(s, u)), 0))])

RECURSIVE table_loop(_, _, _, _)
table_loop(s, u, v, offset) ==
  LET after_climb(r) == table_loop(r[1], r[2], r[3], r[4])
      entered(s2) ==
        IF get_child(s2, u) # null_literal
        THEN table_loop(set_parent(s2, u, v), get_child(s2, u), u, offset)
        ELSE after_climb(table_climb(s2, u, v, offset))
  IN IF u = null_literal THEN s
     ELSE entered([set_rank(s, u, Len(s.m_lookahead)) EXCEPT
                     !.m_lookahead =
                         Append(@, lookahead_entry(get_vcomp(s, u), 0))])

construct_lookahead_table(s) ==
  table_loop(s, get_child(s, null_literal), null_literal, 0)

\* pre_select() up to the test of inconsistent(): select() and get_scc().
pre_select_scc(s, heur) ==
  LET selected(r) == IF r[2] = "true" THEN << get_scc(r[1]), "true" >> ELSE r
  IN selected(select([s EXCEPT !.m_lookahead = << >>], scope_lvl(s), heur))

\* The rest of pre_select(): find_heights() and the lookahead table.
pre_select_table(s) == construct_lookahead_table(find_heights(s))

\* --------------------------------------------------------- lookahead probes
get_wnb(s, l) == s.m_lits[l].m_wnb
set_wnb(s, l, f) == [s EXCEPT !.m_lits[l].m_wnb = f]
inc_wnb(s, l, f) == [s EXCEPT !.m_lits[l].m_wnb = @ + f]
dl_enabled(s, l) == s.m_lits[l].m_double_lookahead # s.m_istamp_id
dl_disable(s, l) == [s EXCEPT !.m_lits[l].m_double_lookahead = s.m_istamp_id]
dl_no_overflow(s, base) ==
  base + 2 * Len(s.m_lookahead) * (dl_max_iterations + 1) < c_fixed_truth
set_level(s, d, src) ==
  [s EXCEPT !.m_stamp[var(d)] =
     (s.m_stamp[var(src)] - (s.m_stamp[var(src)] % 2)) + sign(d)]
mul_delta_rho(x) == (x * 9995) \div 10000

init_wnb(s) ==
  [s EXCEPT !.m_qhead_lim = Append(@, s.m_qhead),
            !.m_trail_lim = Append(@, Len(s.m_trail))]

\* reset_wnb that leaves its entry on m_qhead_lim.
reset_wnb_keeps_qhead_lim(s) ==
  LET old_sz == Last(s.m_trail_lim)
  IN [s EXCEPT
        !.m_qhead = Last(s.m_qhead_lim),
        !.m_stamp = table([v \in Vars |->
                             IF \E i \in (old_sz + 1) .. Len(s.m_trail) :
                                  var(s.m_trail[i]) = v
                             THEN 0 ELSE s.m_stamp[v]]),
        !.m_trail = Shrink(@, old_sz),
        !.m_trail_lim = Front(@)]

\* reset_wnb that unassigns the whole trail, not only the part above the
\* mark of init_wnb.
reset_wnb_whole_trail(s) ==
  LET old_sz == Last(s.m_trail_lim)
  IN [s EXCEPT
        !.m_qhead = Last(s.m_qhead_lim),
        !.m_stamp = table([v \in Vars |->
                             IF \E i \in 1 .. Len(s.m_trail) :
                                  var(s.m_trail[i]) = v
                             THEN 0 ELSE s.m_stamp[v]]),
        !.m_trail = Shrink(@, old_sz),
        !.m_trail_lim = Front(@),
        !.m_qhead_lim = Front(@)]

reset_wnb(s) ==
  LET old_sz == Last(s.m_trail_lim)
  IN [s EXCEPT
        !.m_qhead = Last(s.m_qhead_lim),
        !.m_stamp = table([v \in Vars |->
                             IF \E i \in (old_sz + 1) .. Len(s.m_trail) :
                                  var(s.m_trail[i]) = v
                             THEN 0 ELSE s.m_stamp[v]]),
        !.m_trail = Shrink(@, old_sz),
        !.m_trail_lim = Front(@),
        !.m_qhead_lim = Front(@)]

reset_wnb_lit(s, l) ==
  LET p == get_parent(s, l)
  IN set_wnb([s EXCEPT !.m_weighted_new_binaries = 0], l,
             IF p = null_literal THEN 0 ELSE get_wnb(s, p))

\* check_autarky returns false before its body runs.
check_autarky(s, l, level) == FALSE

update_wnb(s, l, level) ==
  IF s.m_weighted_new_binaries = 0
  THEN IF ~check_autarky(s, l, level) THEN s
       ELSE IF get_wnb(s, l) = 0
       THEN init_wnb(propagate(assign(reset_wnb(s), l)))
       ELSE LET p == get_parent(s, l)
            IN IF s.m_stamp[var(p)] > s.m_stamp[var(l)]
               THEN set_level(add_binary(s, neg(l), p), l, p)
               ELSE s
  ELSE inc_wnb(s, l, s.m_weighted_new_binaries)

\* The for loop of double_look over the table: << state, change >>.
RECURSIVE double_look_for(_, _, _, _, _)
double_look_for(s, i, base, dl_truth, change) ==
  LET lit == s.m_lookahead[i].m_lit
      after_push(r) ==
        IF r[2]
        THEN double_look_for(
               init_wnb(propagate(assign(reset_wnb(r[1]), neg(lit)))),
               i + 1, base, dl_truth, TRUE)
        ELSE double_look_for(r[1], i + 1, base, dl_truth, change)
  IN IF s.m_inconsistent \/ i > Len(s.m_lookahead) THEN << s, change >>
     ELSE IF is_fixed_at(s, lit, dl_truth)
     THEN double_look_for(s, i + 1, base, dl_truth, change)
     ELSE after_push(push_lookahead2(s, lit, base + s.m_lookahead[i].m_offset))

RECURSIVE double_look_while(_, _, _, _, _)
double_look_while(s, base, dl_truth, change, num_iterations) ==
  LET base1 == base + 2 * Len(s.m_lookahead)
      after_for(r) ==
        double_look_while(r[1], base1, dl_truth, r[2], num_iterations + 1)
  IN IF change /\ num_iterations < dl_max_iterations /\ ~s.m_inconsistent
     THEN after_for(double_look_for(s, 1, base1, dl_truth, FALSE))
     ELSE s

\* double_look and do_double return << state, base >>.
double_look(s, l, base) ==
  LET dl_truth == base + 2 * Len(s.m_lookahead) * (dl_max_iterations + 1)
      s1 == propagate(assign(init_wnb(with_level(s, dl_truth)), l))
      s2 == double_look_while(s1, base, dl_truth, TRUE, 0)
  IN << restore_level(reset_wnb(s2), s), dl_truth >>

do_double(s, l, base) ==
  LET after_look(r) ==
        << dl_disable([r[1] EXCEPT !.m_delta_trigger = get_wnb(r[1], l)], l),
           r[2] >>
  IN IF ~s.m_inconsistent /\ scope_lvl(s) > 1 /\ dl_enabled(s, l)
     THEN IF get_wnb(s, l) > s.m_delta_trigger
          THEN IF dl_no_overflow(s, base)
               THEN after_look(double_look(s, l, base))
               ELSE << s, base >>
          ELSE << [s EXCEPT !.m_delta_trigger = mul_delta_rho(@)], base >>
     ELSE << s, base >>

\* compute_wnb on one entry that does not assign ~lit after a failed probe.
compute_wnb_body_drops_unit(s, c) ==
  LET lit == s.m_lookahead[c.i].m_lit
      level == c.base + s.m_lookahead[c.i].m_offset
      next == [c EXCEPT !.i = c.i + 1]
      after_pop(s2, unsat, base) ==
        IF unsat
        THEN << init_wnb(reset_wnb(s2)),
                [next EXCEPT !.base = base, !.change = TRUE] >>
        ELSE << update_wnb(s2, lit, level), [next EXCEPT !.base = base] >>
      after_double(d) ==
        after_pop(pop_lookahead1(d[1], lit), d[1].m_inconsistent, d[2])
      after_push(s1) ==
        after_double(IF ~c.first THEN do_double(s1, lit, c.base)
                     ELSE << s1, c.base >>)
  IN IF is_fixed_at(s, lit, c_fixed_truth) THEN << s, next >>
     ELSE IF s.m_stamp[var(lit)] >= level THEN << s, next >>
     ELSE after_push(push_lookahead1(reset_wnb_lit(s, lit), lit, level))

\* One iteration of the for loop of compute_wnb on table entry i (from 1);
\* c holds the locals base, change, first, i.  Returns << state, locals >>.
compute_wnb_body(s, c) ==
  LET lit == s.m_lookahead[c.i].m_lit
      level == c.base + s.m_lookahead[c.i].m_offset
      next == [c EXCEPT !.i = c.i + 1]
      after_pop(s2, unsat, base) ==
        IF unsat
        THEN << init_wnb(propagate(assign(reset_wnb(s2), neg(lit)))),
                [next EXCEPT !.base = base, !.change = TRUE] >>
        ELSE << update_wnb(s2, lit, level), [next EXCEPT !.base = base] >>
      after_double(d) ==
        after_pop(pop_lookahead1(d[1], lit), d[1].m_inconsistent, d[2])
      after_push(s1) ==
        after_double(IF ~c.first THEN do_double(s1, lit, c.base)
                     ELSE << s1, c.base >>)
  IN IF is_fixed_at(s, lit, c_fixed_truth) THEN << s, next >>
     ELSE IF s.m_stamp[var(lit)] >= level THEN << s, next >>
     ELSE after_push(push_lookahead1(reset_wnb_lit(s, lit), lit, level))

\* ------------------------------------------------------------- selection
mix_diff(l, r) == l + r + fp_mul(l, r)

\* The generator of the enclosing solver (m_s.m_rand): a full-period linear
\* congruential generator; rand(r, count) is the value m_rand(count) returns
\* from generator state r, rand_next(r) the state it leaves.
rand_next(r) == (r * 5 + 3) % 16
rand(r, count) == (rand_next(r) \div 4) % count

\* select_literal that returns the polarity with the larger WNB.
RECURSIVE select_literal_from_larger_wnb(_, _, _, _, _, _)
select_literal_from_larger_wnb(s, i, l, h, count, r) ==
  IF i > Len(s.m_lookahead) THEN << l, r >>
  ELSE LET lit == s.m_lookahead[i].m_lit
       IN IF sign(lit) = 1 \/ ~is_undef(s, lit)
          THEN select_literal_from_larger_wnb(s, i + 1, l, h, count, r)
          ELSE LET diff1 == get_wnb(s, lit)
                   diff2 == get_wnb(s, neg(lit))
                   mixd == mix_diff(diff1, diff2)
                   pick == IF diff1 < diff2 THEN neg(lit) ELSE lit
                   count1 == IF mixd = h THEN count + 1 ELSE count
               IN IF mixd > h
                  THEN select_literal_from_larger_wnb(s, i + 1, pick, mixd, 1, r)
                  ELSE IF mixd = h
                  THEN IF rand(r, count1) = 0
                       THEN select_literal_from_larger_wnb(s, i + 1, pick, mixd, count1,
                                                rand_next(r))
                       ELSE select_literal_from_larger_wnb(s, i + 1, l, h, count1,
                                                rand_next(r))
                  ELSE select_literal_from_larger_wnb(s, i + 1, l, h, count, r)

\* select_literal from table entry i with locals l, h, count and generator
\* state r: the literal returned and the generator state left.
RECURSIVE select_literal_from(_, _, _, _, _, _)
select_literal_from(s, i, l, h, count, r) ==
  IF i > Len(s.m_lookahead) THEN << l, r >>
  ELSE LET lit == s.m_lookahead[i].m_lit
       IN IF sign(lit) = 1 \/ ~is_undef(s, lit)
          THEN select_literal_from(s, i + 1, l, h, count, r)
          ELSE LET diff1 == get_wnb(s, lit)
                   diff2 == get_wnb(s, neg(lit))
                   mixd == mix_diff(diff1, diff2)
                   pick == IF diff1 < diff2 THEN lit ELSE neg(lit)
                   count1 == IF mixd = h THEN count + 1 ELSE count
               IN IF mixd > h
                  THEN select_literal_from(s, i + 1, pick, mixd, 1, r)
                  ELSE IF mixd = h
                  THEN IF rand(r, count1) = 0
                       THEN select_literal_from(s, i + 1, pick, mixd, count1,
                                                rand_next(r))
                       ELSE select_literal_from(s, i + 1, l, h, count1,
                                                rand_next(r))
                  ELSE select_literal_from(s, i + 1, l, h, count, r)

select_literal(s, r) == select_literal_from(s, 1, null_literal, 0, 1, r)

\* ------------------------------------------------------------------ inputs
\* Literal +x / -x of the DIMACS variable x (variables are numbered from 0
\* in the solver).
P(x) == mk_literal(x - 1, FALSE)
N(x) == mk_literal(x - 1, TRUE)

Formula(bins, clauses, units) ==
  [binary |-> bins, clauses |-> clauses, units |-> units]

\* The members of a pool (a sequence) selected by the index set I, in pool
\* order.
RECURSIVE Pick(_, _, _)
Pick(pool, I, i) ==
  IF i > Len(pool) THEN << >>
  ELSE IF i \in I THEN << pool[i] >> \o Pick(pool, I, i + 1)
  ELSE Pick(pool, I, i + 1)

\* The eight ternary clauses over x1, x2, x3.
TernaryPool ==
  << << P(1), P(2), P(3) >>, << P(1), P(2), N(3) >>,
     << P(1), N(2), P(3) >>, << P(1), N(2), N(3) >>,
     << N(1), P(2), P(3) >>, << N(1), P(2), N(3) >>,
     << N(1), N(2), P(3) >>, << N(1), N(2), N(3) >> >>

\* Binary clauses: the four over x1, x2, an implication chain x2 -> x3 -> x4
\* and its way back.
BinaryPool ==
  << << P(1), P(2) >>, << P(1), N(2) >>, << N(1), P(2) >>, << N(1), N(2) >>,
     << N(2), P(3) >>, << N(3), P(4) >>, << N(4), P(2) >>, << P(3), P(4) >> >>

\* The clauses over all the variables, one per sign pattern k < n.
RECURSIVE SignPatterns(_)
SignPatterns(n) ==
  IF n = 0 THEN << >>
  ELSE Append(SignPatterns(n - 1),
              << (n - 1) % 2, 2 + (((n - 1) \div 2) % 2),
                 4 + (((n - 1) \div 4) % 2), 6 + (((n - 1) \div 8) % 2) >>)

\* The scenarios of the specification and formulas mixing clause sizes.
Scenarios ==
  { Formula(<< >>, SignPatterns(16), << >>),
    Formula(<< >>, SignPatterns(15), << >>),
    Formula(<< << N(3), P(4) >>, << N(4), P(2) >> >>,
            << << P(1), P(2), P(4) >>, << N(1), P(3), P(4) >>,
               << N(2), N(3), P(4) >> >>, << >>),
    Formula(<< << N(3), P(4) >> >>, SignPatterns(16), << >>),
    Formula(<< << N(4), P(2) >>, << P(3), P(4) >> >>, SignPatterns(16), << >>),
    Formula(<< << N(3), P(4) >> >>,
            << << N(1), P(2), P(3) >>, << N(1), P(2), N(3) >>,
               << N(1), N(2), P(3) >>, << P(1), P(2), P(4) >>,
               << P(1), P(2), N(4) >>, << P(1), N(2), P(4) >>,
               << P(1), N(2), N(4) >>, << N(2), N(3), P(4) >> >>, << >>),
    Formula(<< << N(1), P(2) >>, << N(1), P(3) >>, << P(1), P(2) >>,
               << P(1), P(3) >> >>,
            << << N(2), N(3), P(4) >>, << N(2), N(3), N(4) >> >>, << >>),
    Formula(<< << N(1), P(2) >>, << N(2), P(3) >> >>, << >>, << P(1) >>),
    Formula(<< >>, << << P(1), P(2), P(3) >>, << P(1), N(2), P(4) >> >>, << >>),
    Formula(<< << P(1), N(2) >>, << N(1), P(2) >>, << P(2), N(3) >>,
               << N(2), P(3) >> >>, << >>, << >>),
    Formula(<< << N(1), P(2) >> >>,
            << << P(1), P(2), P(3), P(4) >>, << N(2), N(3), N(4) >>,
               << P(1), N(2), P(3), N(4) >> >>, << >>),
    Formula(<< << P(1), P(2) >> >>,
            << << N(1), N(2), P(3), P(4) >>, << N(1), P(2), N(3), P(4) >>,
               << P(1), N(2), N(3), N(4) >>, << N(3), P(4), P(1) >>,
               << P(3), N(4), N(1) >> >>, << N(3) >>),
    Formula(<< << P(3), P(4) >>, << N(3), N(4) >> >>,
            << << P(1), P(2), P(3) >>, << P(1), N(2), P(4) >>,
               << N(1), P(2), N(3) >>, << N(1), N(2), N(4) >>,
               << P(1), P(2), N(4) >>, << N(1), N(2), P(3) >> >>, << >>),
    Formula(<< << P(1), P(2) >>, << N(1), N(2) >> >>, << >>, << P(1), N(1) >>),
    Formula(<< << N(2), P(3) >>, << N(3), P(4) >>, << P(3), P(4) >> >>,
            << << P(1), N(3), N(4) >> >>, << >>),
    Formula(<< << N(1), P(2) >>, << N(3), P(4) >> >>,
            << << P(1), P(2), P(3), P(4) >>, << P(1), N(2), P(3), N(4) >> >>,
            << >>),
    Formula(<< << N(3), P(4) >>, << P(1), P(3) >> >>,
            << << N(1), P(2), P(3), N(4) >> >>, << >>),
    Formula(<< << P(4), N(1) >>, << P(2), N(3) >>, << N(2), P(3) >> >>,
            << << N(2), P(3), N(1) >>, << N(3), N(2), P(4) >> >>, << >>),
    Formula(<< << P(1), N(3) >>, << N(2), N(3) >>, << P(3), P(2) >> >>,
            << >>, << >>),
    Formula(<< << N(4), N(1) >>, << N(4), N(2) >>, << P(2), P(4) >> >>,
            << << N(4), N(2), N(3) >>, << N(2), N(1), N(3) >>,
               << P(1), N(2), P(4) >> >>, << >>),
    Formula(<< << P(3), P(4) >>, << N(1), N(4) >>, << N(4), N(2) >>,
               << N(3), N(4) >> >>,
            << << P(1), N(4), P(3) >>, << P(3), N(1), N(4) >> >>, << >>),
    Formula(<< << N(1), P(2) >>, << P(1), P(4) >> >>,
            << << N(1), N(2), P(3) >>, << N(1), N(2), N(3) >> >>, << >>),
    Formula(<< << P(2), P(3) >>, << P(2), N(3) >>, << N(2), P(4) >>,
               << N(2), N(4) >> >>,
            << << P(1), P(2), P(3) >>, << N(1), N(2), P(4) >> >>, << >>) }

\* Clauses of four literals, with binary clauses among their variables.
QuaternaryPool ==
  << << P(1), P(2), P(3), P(4) >>, << N(1), P(2), N(3), P(4) >>,
     << P(1), N(2), P(3), N(4) >>, << N(1), N(2), N(3), N(4) >>,
     << N(1), P(2), P(3), N(4) >> >>

MixedBinaryPool == << << N(1), P(2) >>, << N(3), P(4) >>, << P(1), P(3) >> >>

Formulas ==
  Scenarios
  \cup { Formula(<< >>, Pick(TernaryPool, I, 1), << >>) :
           I \in SUBSET (1 .. Len(TernaryPool)) }
  \cup { Formula(Pick(BinaryPool, I, 1), << >>, << >>) :
           I \in SUBSET (1 .. Len(BinaryPool)) }
  \cup { Formula(Pick(MixedBinaryPool, I, 1), Pick(QuaternaryPool, J, 1),
                 << >>) :
           I \in SUBSET (1 .. Len(MixedBinaryPool)),
           J \in SUBSET (1 .. Len(QuaternaryPool)) }

HeurProfiles == { table([l \in Lits |-> Scale]) }

\* -------------------------------------------------------------------- Init
\* The state after the constructor: m_level(2), m_num_tc1(0), m_prefix(0),
\* empty vectors.  Members the constructor leaves unset are written by
\* init() or init_scc() before they are read.
InitArgs(fs, assumptions, varsets) ==
  /\ \E f \in fs :
       /\ in_binary = f.binary
       /\ in_clauses = f.clauses
       /\ in_units = f.units
  /\ in_heur \in HeurProfiles
  /\ in_assumptions \in assumptions
  /\ in_vars \in varsets
  /\ m_stamp = table([v \in Vars |-> 0])
  /\ m_level = 2
  /\ m_trail = << >>
  /\ m_trail_lim = << >>
  /\ m_binary = table([l \in Lits |-> << >>])
  /\ m_binary_trail = << >>
  /\ m_binary_trail_lim = << >>
  /\ m_num_tc1 = 0
  /\ m_num_tc1_lim = << >>
  /\ m_qhead = 0
  /\ m_qhead_lim = << >>
  /\ m_clauses = << >>
  /\ m_retired_clauses = << >>
  /\ m_retired_clause_lim = << >>
  /\ m_retired_ternary = << >>
  /\ m_retired_ternary_lim = << >>
  /\ m_watches = table([l \in Lits |-> << >>])
  /\ m_inconsistent = FALSE
  /\ m_bstamp = table([l \in Lits |-> 0])
  /\ m_bstamp_id = 0
  /\ m_istamp_id = 0
  /\ m_lits = table([l \in Lits |-> [m_wnb |-> 0, m_double_lookahead |-> 0]])
  /\ m_heur = table([l \in Lits |-> 0])
  /\ m_rating = table([v \in Vars |-> 0])
  /\ m_weighted_new_binaries = 0
  /\ m_wstack = << >>
  /\ m_prefix = {}
  /\ m_vprefix = table([v \in Vars |-> [m_prefix |-> {}, m_length |-> 0]])
  /\ m_freevars = << >>
  /\ m_search_mode = "searching"
  /\ m_delta_trigger = 0
  /\ m_assumptions = << >>
  /\ m_candidates = << >>
  /\ m_dfs = table([l \in Lits |-> dfs_info_reset])
  /\ m_rank = 0
  /\ m_active = null_literal
  /\ m_settled = null_literal
  /\ m_root_child = null_literal
  /\ m_lookahead = << >>
  /\ m_model = << >>
  /\ m_select_lookahead_vars = {}
  /\ pc = "init_search"
  /\ trail = << >>
  /\ lit_chosen = null_literal
  /\ cw = [base |-> 2, change |-> TRUE, first |-> TRUE, i |-> 1]
  /\ result = "none"
  /\ m_rand = 0
  /\ scopes = << >>
  /\ fresh = FALSE
  /\ popped = NoPop
  /\ windfalls = << {} >>
  /\ explored = {}

\* check() takes no assumptions and no variables.
\* Outside the specification of the level arithmetic lv stays as it is here.
NoLevels ==
  [size |-> 0, dl_max |-> 0, offset |-> << >>, base |-> 0, i |-> 0,
   first |-> TRUE, change |-> FALSE, fixed |-> {}, dl_done |-> {},
   used |-> {}, at |-> "off"]

\* Outside the specification of the cut of select() hc stays as it is here.
NoCut ==
  [cands |-> << >>, sum |-> 0, max_num_cand |-> 0, entered |-> << >>,
   at |-> "off"]

InitWith(fs) == InitArgs(fs, {<< >>}, {{}}) /\ lv = NoLevels /\ hc = NoCut

Init == InitWith(Formulas)

\* ----------------------------------------------------------------- actions
\* check(): init_search(), then search() up to the head of its loop.
InitSearch ==
  /\ pc = "init_search"
  /\ SetState([init_search(State, in_binary, in_clauses, in_units)
                 EXCEPT !.m_model = << >>, !.m_level = c_fixed_truth,
                        !.m_search_mode = "searching"])
  /\ pc' = "search"
  /\ trail' = << >>
  /\ UNCHANGED << inputs, lit_chosen, cw, result, m_rand, history,
                  learned >>

\* Head of the while(true) of search(): inc_istamp, checkpoint, first test.
SearchLoop ==
  /\ pc = "search"
  /\ SetState(inc_istamp(State))
  /\ pc' = IF m_inconsistent THEN "backtrack" ELSE "choose"
  /\ lit_chosen' = null_literal
  /\ UNCHANGED << inputs, trail, cw, result, m_rand, history,
                  learned >>

\* backtrack(): the loop test, with the two ways out of it.
BacktrackTest ==
  /\ pc = "backtrack"
  /\ IF ~m_inconsistent
     THEN pc' = "search" /\ result' = result /\ m_level' = m_level
     ELSE IF trail = << >>
     THEN pc' = "done" /\ result' = "l_false" /\ m_level' = 2
     ELSE pc' = "backtrack_pop" /\ result' = result /\ m_level' = m_level
  /\ UNCHANGED << inputs, trail, lit_chosen, cw, m_rand, history,
                  learned >>
  /\ UNCHANGED << m_stamp, m_trail, m_trail_lim, m_binary, m_binary_trail,
                  m_binary_trail_lim, m_num_tc1, m_num_tc1_lim, m_qhead,
                  m_qhead_lim, m_clauses, m_retired_clauses,
                  m_retired_clause_lim, m_retired_ternary,
                  m_retired_ternary_lim, m_watches, m_inconsistent, m_bstamp,
                  m_bstamp_id, m_istamp_id, m_lits, m_heur, m_rating,
                  m_weighted_new_binaries, m_wstack, m_prefix, m_vprefix,
                  m_freevars, m_search_mode, m_delta_trigger, m_assumptions,
                  m_candidates, m_dfs, m_rank, m_active, m_settled,
                  m_root_child, m_lookahead, m_model,
                  m_select_lookahead_vars >>

BacktrackPop ==
  /\ pc = "backtrack_pop"
  /\ SetState(pop(State))
  /\ pc' = "backtrack_flip"
  /\ scopes' = Front(scopes)
  /\ popped' = [valid |-> TRUE, fresh |-> fresh, at_push |-> Last(scopes),
                before_pop |-> Snapshot(State)]
  /\ fresh' = FALSE
  /\ windfalls' = Front(windfalls)
  /\ UNCHANGED << inputs, trail, lit_chosen, cw, result, m_rand, lv, hc,
                  explored >>

BacktrackFlip ==
  /\ pc = "backtrack_flip"
  /\ SetState(propagate(assign(flip_prefix(State), neg(Last(trail)))))
  /\ trail' = Front(trail)
  /\ pc' = "backtrack"
  /\ popped' = NoPop
  /\ UNCHANGED << inputs, lit_chosen, cw, result, m_rand, scopes, fresh,
                  learned >>

\* choose(): one round of its while loop starts with pre_select().
PreSelect ==
  /\ pc = "choose"
  /\ LET done(r) ==
           /\ SetState(r[1])
           /\ pc' = IF r[2] = "loop" THEN "select_spin"
                    ELSE IF r[2] = "false" \/ r[1].m_inconsistent THEN "chosen"
                    ELSE "find_heights"
     IN done(pre_select_scc(State, in_heur))
  /\ fresh' = FALSE
  /\ UNCHANGED << inputs, trail, lit_chosen, cw, result, m_rand, scopes,
                  popped, learned >>

\* pre_select() after get_scc() has found no conflict.
FindHeights ==
  /\ pc = "find_heights"
  /\ LET done(s) ==
           /\ SetState(s)
           /\ pc' = IF s.m_lookahead = << >> THEN "chosen" ELSE "compute_wnb"
     IN done(pre_select_table(State))
  /\ UNCHANGED << inputs, trail, lit_chosen, cw, result, m_rand, history,
                  learned >>

ComputeWnbInit ==
  /\ pc = "compute_wnb"
  /\ SetState(init_wnb(State))
  /\ cw' = [base |-> 2, change |-> TRUE, first |-> TRUE, i |-> 1]
  /\ pc' = "cw_while"
  /\ UNCHANGED << inputs, trail, lit_chosen, result, m_rand, history,
                  learned >>

ComputeWnbWhile ==
  /\ pc = "cw_while"
  /\ IF cw.change /\ ~m_inconsistent
     THEN cw' = [cw EXCEPT !.change = FALSE, !.i = 1] /\ pc' = "cw_for"
     ELSE cw' = cw /\ pc' = "cw_exit"
  /\ UNCHANGED << inputs, solver, trail, lit_chosen, result, m_rand, history,
                  learned >>

\* The probe that the for loop of compute_wnb() makes on entry cw.i: its
\* literal and level, the state before pop_lookahead1 (after push_lookahead1
\* and, from the second round on, do_double), the state after it, and the
\* binaries that pop_lookahead1 makes of m_wstack.
probe_lit == m_lookahead[cw.i].m_lit

probe_level == cw.base + m_lookahead[cw.i].m_offset

probe_made ==
  /\ ~is_fixed_at(State, probe_lit, c_fixed_truth)
  /\ m_stamp[var(probe_lit)] < probe_level

probe_pushed ==
  LET look(s1) == IF ~cw.first THEN do_double(s1, probe_lit, cw.base)[1] ELSE s1
  IN look(push_lookahead1(reset_wnb_lit(State, probe_lit), probe_lit,
                          probe_level))

probe_failed == probe_pushed.m_inconsistent

probe_popped == pop_lookahead1(probe_pushed, probe_lit)

probe_windfalls ==
  LET pairs(w) == { << neg(probe_lit), w[k] >> : k \in 1 .. Len(w) }
  IN pairs(probe_pushed.m_wstack)

ComputeWnbProbe ==
  /\ pc = "cw_for"
  /\ ~m_inconsistent /\ cw.i <= Len(m_lookahead)
  /\ LET done(r) == SetState(r[1]) /\ cw' = r[2]
     IN done(compute_wnb_body(State, cw))
  /\ windfalls' = IF probe_made /\ ~probe_failed
                  THEN [windfalls EXCEPT ![Len(windfalls)] =
                                           @ \cup probe_windfalls]
                  ELSE windfalls
  /\ UNCHANGED << inputs, pc, trail, lit_chosen, result, m_rand, history,
                  lv, hc, explored >>

ComputeWnbRoundEnd ==
  /\ pc = "cw_for"
  /\ ~(~m_inconsistent /\ cw.i <= Len(m_lookahead))
  /\ IF c_fixed_truth - 2 * Len(m_lookahead) < cw.base
     THEN /\ pc' = "cw_exit"
          /\ cw' = cw
          /\ UNCHANGED solver
     ELSE /\ pc' = "cw_while"
          /\ cw' = IF cw.first /\ ~cw.change
                   THEN [cw EXCEPT !.first = FALSE, !.change = TRUE]
                   ELSE cw
          /\ SetState(init_wnb(reset_wnb(State)))
  /\ UNCHANGED << inputs, trail, lit_chosen, result, m_rand, history,
                  learned >>

ComputeWnbExit ==
  /\ pc = "cw_exit"
  /\ SetState(reset_wnb(State))
  /\ pc' = IF m_inconsistent THEN "chosen" ELSE "select_literal"
  /\ UNCHANGED << inputs, trail, lit_chosen, cw, result, m_rand, history,
                  learned >>

SelectLiteral ==
  /\ pc = "select_literal"
  /\ LET done(r) ==
           /\ lit_chosen' = r[1]
           /\ m_rand' = r[2]
           /\ pc' = IF r[1] = null_literal THEN "choose" ELSE "chosen"
     IN done(select_literal(State, m_rand))
  /\ UNCHANGED << inputs, solver, trail, cw, result, history,
                  learned >>

\* search() after choose(): backtrack, return l_true, or decide.
Decide ==
  /\ pc = "chosen"
  /\ IF m_inconsistent
     THEN /\ pc' = "backtrack" /\ result' = result /\ trail' = trail
          /\ UNCHANGED << solver, scopes, fresh, windfalls, explored >>
     ELSE IF lit_chosen = null_literal
     THEN /\ pc' = "done" /\ result' = "l_true" /\ trail' = trail
          /\ SetState([State EXCEPT !.m_level = 2])
          /\ UNCHANGED << scopes, fresh, windfalls, explored >>
     ELSE /\ pc' = "search" /\ result' = result
          /\ trail' = Append(trail, lit_chosen)
          /\ SetState(push(State, lit_chosen, c_fixed_truth))
          /\ scopes' = Append(scopes, Snapshot(State))
          /\ fresh' = TRUE
          /\ windfalls' = Append(windfalls, {})
          /\ explored' = explored \cup {<< trail, lit_chosen >>}
  /\ UNCHANGED << inputs, lit_chosen, cw, m_rand, popped, lv, hc >>

Next ==
  \/ InitSearch
  \/ SearchLoop
  \/ BacktrackTest
  \/ BacktrackPop
  \/ BacktrackFlip
  \/ PreSelect
  \/ FindHeights
  \/ ComputeWnbInit
  \/ ComputeWnbWhile
  \/ ComputeWnbProbe
  \/ ComputeWnbRoundEnd
  \/ ComputeWnbExit
  \/ SelectLiteral
  \/ Decide

Spec == Init /\ [][Next]_vars

\* ------------------------------------------------------------ ground truth
\* The input formula as a set of clauses (sets of literals), total
\* assignments, and entailment by brute force.
InputClauses ==
  { {in_binary[i][1], in_binary[i][2]} : i \in 1 .. Len(in_binary) }
  \cup { Range(in_clauses[i]) : i \in 1 .. Len(in_clauses) }
  \cup { {in_units[i]} : i \in 1 .. Len(in_units) }

Assignments == [Vars -> BOOLEAN]
Holds(A, l) == A[var(l)] = (sign(l) = 0)
ModelOf(A, cs) == \A c \in cs : \E l \in c : Holds(A, l)
Satisfiable(cs) == \E A \in Assignments : ModelOf(A, cs)
Entails(cs, ls, l) ==
  \A A \in Assignments :
    ModelOf(A, cs) /\ (\A d \in ls : Holds(A, d)) => Holds(A, l)

\* ------------------------------------------------------------- properties
\* l is true at the level of the search, c_fixed_truth.
fixed_true(l) ==
  m_stamp[var(l)] >= c_fixed_truth /\ m_stamp[var(l)] % 2 = sign(l)

\* C1: when search() returns l_false the input formula has no satisfying
\* assignment, and in every state each literal that is true at
\* c_fixed_truth (assigned by a unit, a decision, backtrack or a failed
\* probe) is implied by the input formula and the decisions still open.
C1_UnsatIsSound ==
  /\ result = "l_false" => ~Satisfiable(InputClauses)
  /\ \A l \in Lits :
       fixed_true(l) => Entails(InputClauses, Range(trail), l)

\* search() has returned l_false on a formula without units after it had
\* fixed literals by failed probes or by backtracking.
C1_Witness ==
  /\ result = "l_false"
  /\ in_units = << >>
  /\ \E l \in Lits : fixed_true(l)

\* C2: when search() returns l_true every input clause, binary or longer,
\* and every binary of the adjacency has a literal true at c_fixed_truth;
\* and choose() comes back with null_literal and no conflict only in a state
\* where that is so.
AllSatisfied ==
  /\ \A c \in InputClauses : \E l \in c : fixed_true(l)
  /\ \A a \in Lits : \A k \in 1 .. Len(m_binary[a]) :
       fixed_true(neg(a)) \/ fixed_true(m_binary[a][k])

C2_SatIsSound ==
  /\ result = "l_true" => AllSatisfied
  /\ pc = "chosen" /\ ~m_inconsistent /\ lit_chosen = null_literal
       => AllSatisfied

\* search() has returned l_true on a formula with long clauses, after at
\* least one decision.
C2_Witness ==
  /\ result = "l_true"
  /\ in_clauses # << >>
  /\ trail # << >>

\* C3: no variable has both polarities: a true literal's complement is not
\* true; and assign() of a literal that is false changes neither the stamps
\* nor the trail and sets m_inconsistent.
C3_AssignKeepsOnePolarity ==
  /\ \A l \in Lits : is_true(State, l) => ~is_true(State, neg(l))
  /\ \A l \in Lits :
       is_false(State, l)
         => LET unchanged(s) ==
                  /\ s.m_stamp = m_stamp
                  /\ s.m_trail = m_trail
                  /\ s.m_freevars = m_freevars
                  /\ s.m_inconsistent
            IN unchanged(assign(State, l))

\* Propagation has run assign() on a false literal: the conflict flag is up
\* in the backtrack loop while literals are assigned.
C3_Witness ==
  /\ pc = "backtrack"
  /\ m_inconsistent
  /\ \E l \in Lits : is_false(State, l)

\* The number of times x occurs in the list q.
Occurrences(q, x) == Cardinality({k \in 1 .. Len(q) : q[k] = x})

\* C4: the binary adjacency is symmetric in every state: b occurs in the
\* list of ~a as often as a occurs in the list of ~b.
C4_AdjacencySymmetric ==
  \A a \in Lits : \A b \in Lits :
    Occurrences(m_binary[neg(a)], b) = Occurrences(m_binary[neg(b)], a)

\* pop() has run and binaries learned in an outer scope remain beside the
\* input binaries.
C4_Witness ==
  /\ popped.valid
  /\ in_binary # << >>
  /\ Len(m_binary_trail) > Len(in_binary)

\* What pop() is to put back, compared with what push() found.
Restored(s, snap) ==
  /\ s.m_trail = snap.m_trail
  /\ s.m_binary = snap.m_binary
  /\ s.m_retired_clauses = snap.m_retired_clauses
  /\ s.m_retired_ternary = snap.m_retired_ternary
  /\ s.m_qhead = snap.m_qhead
  /\ s.m_num_tc1 = snap.m_num_tc1
  /\ ~s.m_inconsistent

\* C5: push(l, L) followed at once by pop() puts back the trail, every
\* adjacency list with its order, the retired clauses and ternaries, qhead
\* and the tc1 counter, and takes down the conflict flag.  Checked on the
\* pops of search() that follow their push with nothing in between, and on
\* push and pop applied to every unassigned literal where search() decides.
C5_PushPopRestores ==
  /\ popped.valid /\ popped.fresh => Restored(State, popped.at_push)
  /\ pc = "chosen" /\ ~m_inconsistent
       => \A l \in Lits :
            is_undef(State, l)
              => Restored(pop(push(State, l, c_fixed_truth)), Snapshot(State))

\* A pop() straight after its push(), whose propagation had learned
\* binaries, retired ternaries, spent tc1 budget and met a conflict.
C5_Witness ==
  /\ popped.valid /\ popped.fresh
  /\ popped.before_pop.m_inconsistent
  /\ popped.before_pop.m_binary # popped.at_push.m_binary
  /\ popped.before_pop.m_retired_ternary # popped.at_push.m_retired_ternary
  /\ popped.before_pop.m_num_tc1 # popped.at_push.m_num_tc1
  /\ Len(popped.before_pop.m_trail) > Len(popped.at_push.m_trail) + 1

\* C6: every binary added between a push() and its pop(), nested scopes
\* and probes included, is gone after that pop(): the binary trail is what
\* it was at the push and so is every adjacency list, in content and order.
C6_BinariesUndone ==
  popped.valid
    => /\ m_binary_trail = popped.at_push.m_binary_trail
       /\ m_binary = popped.at_push.m_binary

\* A pop() that closes a scope in which probes and an inner scope had run
\* and that removes binaries added since its push().
C6_Witness ==
  /\ popped.valid /\ ~popped.fresh
  /\ Len(popped.before_pop.m_binary_trail)
       > Len(popped.at_push.m_binary_trail)

\* search() is between two of its operations: compute_wnb(), which holds
\* the mark of init_wnb on two of the stacks, is not running.
Quiescent == pc \notin {"cw_while", "cw_for", "cw_exit"}

\* C7: at every quiescent point the six scope stacks have the same length.
C7_ScopeStacksAligned ==
  Quiescent
    => /\ Len(m_binary_trail_lim) = Len(m_trail_lim)
       /\ Len(m_qhead_lim) = Len(m_trail_lim)
       /\ Len(m_num_tc1_lim) = Len(m_trail_lim)
       /\ Len(m_retired_clause_lim) = Len(m_trail_lim)
       /\ Len(m_retired_ternary_lim) = Len(m_trail_lim)

\* After a backtrack (the prefix has a flipped bit) and a later compute_wnb()
\* inside an open scope.
C7_Witness ==
  /\ pc = "select_literal"
  /\ Len(m_trail_lim) >= 1
  /\ m_prefix # {}

\* C9: a literal true at c_fixed_truth stays true over every step that is
\* not the pop() of backtrack: no reset_wnb, probe, double lookahead or
\* round of compute_wnb takes it back.
C9_FixedStaysFixed ==
  [][pc # "backtrack_pop"
       => \A l \in Lits : fixed_true(l) => fixed_true(l)']_vars

\* Inside a scope a failed literal has been assigned at c_fixed_truth and
\* the round of compute_wnb has ended with reset_wnb and init_wnb.
C9_Witness ==
  /\ pc = "cw_while"
  /\ scopes # << >>
  /\ cw.change /\ cw.first /\ cw.i > 1
  /\ ~m_inconsistent

\* is_true and is_false of l for the stamps st read at level lvl.
lit_true(st, lvl, l) == st[var(l)] >= lvl /\ st[var(l)] % 2 = sign(l)
lit_false(st, lvl, l) == st[var(l)] >= lvl /\ st[var(l)] % 2 # sign(l)

\* No input clause and no binary of the adjacency bin is unit or falsified:
\* a literal whose fellow literals are all false is true.
NoClauseIsUnit(st, bin, lvl) ==
  /\ \A c \in InputClauses : \A l \in c :
       (\A l2 \in c \ {l} : lit_false(st, lvl, l2)) => lit_true(st, lvl, l)
  /\ \A a \in Lits : \A k \in 1 .. Len(bin[a]) :
       lit_true(st, lvl, a) => lit_true(st, lvl, bin[a][k])

\* The probe that compute_wnb() is about to make, if it makes one.
ProbePending ==
  /\ pc = "cw_for" /\ ~m_inconsistent /\ cw.i <= Len(m_lookahead)
  /\ m_stamp[var(m_lookahead[cw.i].m_lit)]
       < cw.base + m_lookahead[cw.i].m_offset

\* C8: where propagate() has returned without a conflict, qhead is the
\* length of the trail and no binary, ternary or longer clause is unit or
\* falsified.  In searching mode this is every state of search() without
\* conflict (qhead compared outside compute_wnb, which keeps stale probe
\* literals on the trail); in lookahead mode it is the state that
\* push_lookahead1 leaves for the pending probe.
C8_PropagateIsComplete ==
  /\ pc # "init_search" /\ ~m_inconsistent
       => /\ NoClauseIsUnit(m_stamp, m_binary, c_fixed_truth)
          /\ Quiescent => m_qhead = Len(m_trail)
  /\ ProbePending
       => LET level == cw.base + m_lookahead[cw.i].m_offset
              complete(s) ==
                ~s.m_inconsistent
                  => /\ s.m_qhead = Len(s.m_trail)
                     /\ NoClauseIsUnit(s.m_stamp, s.m_binary, level)
          IN complete(push_lookahead1(State, m_lookahead[cw.i].m_lit, level))

\* propagate() has returned without conflict from a decision in searching
\* mode after assigning more than the decision, on a formula with clauses
\* longer than binary.
C8_Witness ==
  /\ pc = "search" /\ fresh /\ ~m_inconsistent
  /\ in_clauses # << >>
  /\ Len(m_trail) > Len(Last(scopes).m_trail) + 1
  /\ m_qhead = Len(m_trail)

\* The literals of the candidate variables, both signs.
CandidateLits ==
  { l \in Lits : \E i \in 1 .. Len(m_candidates) : m_candidates[i].m_var = var(l) }

\* The candidate literals that the literals of S imply by one binary clause
\* of the adjacency, and all that chains of them reach.
ImpliedBy(S) ==
  S \cup { b \in CandidateLits : \E a \in S : b \in Range(m_binary[a]) }

RECURSIVE ReachedFrom(_)
ReachedFrom(S) ==
  LET grow(S2) == IF S2 = S THEN S ELSE ReachedFrom(S2)
  IN grow(ImpliedBy(S))

\* C10: after get_scc() without conflict, candidate literals with the same
\* parent imply each other by chains of binary clauses of the adjacency
\* that pass through candidate literals only.
C10_SccParentsAreEquivalent ==
  pc = "find_heights"
    => \A u \in CandidateLits : \A v \in CandidateLits :
         m_dfs[u].m_parent = m_dfs[v].m_parent => v \in ReachedFrom({u})

\* get_scc() has put two candidate literals of different variables under
\* one parent, and other candidate literals under another.
C10_Witness ==
  /\ pc = "find_heights"
  /\ \E u \in CandidateLits : \E v \in CandidateLits :
       var(u) # var(v) /\ m_dfs[u].m_parent = m_dfs[v].m_parent
  /\ \E u \in CandidateLits : \E v \in CandidateLits :
       m_dfs[u].m_parent # m_dfs[v].m_parent

\* ----------------------------------------------------------------- autarky
\* m_full_watches[l] as copy_clauses() fills it: the clauses that hold ~l.
full_watches(s, l) ==
  { i \in 1 .. Len(s.m_clauses) : neg(l) \in Range(s.m_clauses[i]) }

\* The test that the body of check_autarky() makes below its first
\* statement: every clause of m_full_watches[l] holds a true literal and
\* every literal of m_binary[l] is true.
autarky_test(s, l) ==
  /\ \A i \in full_watches(s, l) :
       \E k \in 1 .. Len(s.m_clauses[i]) : is_true(s, s.m_clauses[i][k])
  /\ \A k \in 1 .. Len(s.m_binary[l]) : is_true(s, s.m_binary[l][k])

\* C11: after a successful lookahead1 probe of l with
\* m_weighted_new_binaries = 0 and wnb(l) = 0, in which every clause of
\* m_full_watches[l] holds a true literal and every binary neighbour of l is
\* true, update_wnb leaves l true at c_fixed_truth.
C11_AutarkyPromotes ==
  ProbePending /\ cw.first /\ ~probe_failed
    => LET lit == probe_lit
           level == probe_level
           promoted(s) ==
             s.m_weighted_new_binaries = 0 /\ get_wnb(s, lit) = 0
               /\ autarky_test(s, lit)
               => LET after(r) == is_true(r, lit) /\ is_fixed_at(r, lit, c_fixed_truth)
                  IN after(update_wnb(s, lit, level))
       IN promoted(probe_popped)

\* --------------------------------------------------------------- windfalls
\* The binary clause (a v b) is in the adjacency lists: b in m_binary[~a].
has_binary(bin, a, b) == Contains(bin[neg(a)], b)

\* A scope of search() is open and search() is between two operations, so
\* that pop() may be called.
ScopeOpen == Quiescent /\ scopes # << >>

get_root(s, v) ==
  LET lit == mk_literal(v, FALSE)
      r1 == get_parent(s, lit)
      r2 == get_parent(s, mk_literal(var(r1), FALSE))
  IN IF var(r1) >= var(r2) THEN r1
     ELSE IF sign(r1) = 1 THEN neg(r2) ELSE r2

\* The loop of scc() over the candidates; r holds roots, to_elim and the
\* state whose parents the loop rewrites.
RECURSIVE scc_loop(_, _)
scc_loop(r, i) ==
  IF i > Len(r.state.m_candidates) THEN r
  ELSE LET v == r.state.m_candidates[i].m_var
           p == get_root(r.state, v)
       IN IF p # null_literal /\ var(p) # v
          THEN scc_loop([roots |-> [r.roots EXCEPT ![v] = p],
                         to_elim |-> Append(r.to_elim, v),
                         state |-> set_parent(r.state, neg(p), neg(p)),
                         ran |-> TRUE],
                        i + 1)
          ELSE scc_loop(r, i + 1)

\* scc(): init(), select(0), get_scc() and the root extraction.  ran is FALSE
\* when scc() returns before the extraction.
scc(s, bins, clauses, units, heur) ==
  LET none(r) == [roots |-> table([v \in Vars |-> mk_literal(v, FALSE)]),
                  to_elim |-> << >>, state |-> r, ran |-> FALSE]
      extract(r) ==
        IF r.m_inconsistent THEN none(r)
        ELSE scc_loop([none(r) EXCEPT !.ran = TRUE], 1)
      selected(r) == IF r[2] = "true" THEN extract(get_scc(r[1])) ELSE none(r[1])
      started(r) ==
        IF r.m_inconsistent THEN none(r)
        ELSE selected(select([inc_istamp(r) EXCEPT !.m_lookahead = << >>], 0, heur))
  IN started(init(with_level([s EXCEPT !.m_search_mode = "searching"],
                             c_fixed_truth),
                  bins, clauses, units))

\* l implies m over the binary clauses in at most n steps.
RECURSIVE implies_within(_, _, _, _)
implies_within(bin, l, m, n) ==
  \/ l = m
  \/ /\ n > 0
     /\ \E k \in 1 .. Len(bin[l]) : implies_within(bin, bin[l][k], m, n - 1)

equivalent(bin, l, m) ==
  implies_within(bin, l, m, 2 * NumVars) /\ implies_within(bin, m, l, 2 * NumVars)

scc_result == scc(State, in_binary, in_clauses, in_units, in_heur)
scc_candidates(r) == { r.state.m_candidates[i].m_var : i \in 1 .. Len(r.state.m_candidates) }

\* C13: after scc() has extracted the roots, two candidate variables whose
\* literals are equivalent under the binary implications have the same root
\* (up to the sign of the equivalence), and a variable is in to_elim exactly
\* when it is not the root of its class.
C13_OneRootPerClass ==
  pc = "init_search"
    => LET r == scc_result
           bin == r.state.m_binary
           same(u, v) ==
             /\ equivalent(bin, mk_literal(u, FALSE), mk_literal(v, FALSE))
                  => r.roots[u] = r.roots[v]
             /\ equivalent(bin, mk_literal(u, FALSE), mk_literal(v, TRUE))
                  => r.roots[u] = neg(r.roots[v])
       IN r.ran
            => /\ \A u \in scc_candidates(r) : \A v \in scc_candidates(r) : same(u, v)
               /\ \A v \in scc_candidates(r) :
                    (var(r.roots[v]) # v) = (v \in Range(r.to_elim))


\* ------------------------------------------------------------------- model
\* init_model(): the first test stores l_undef, the second if/else then stores
\* l_true or l_false for every variable.
init_model_val(s, v) ==
  LET lit == mk_literal(v, FALSE)
      val1 == IF is_undef(s, lit) THEN "l_undef" ELSE "unset"
  IN IF is_true(s, lit) THEN "l_true" ELSE "l_false"

init_model(s) ==
  [s EXCEPT !.m_model = table([i \in 1 .. NumVars |-> init_model_val(s, i - 1)])]

SearchSat == pc = "done" /\ result = "l_true"

\* C14: the model built by init_model after search() has returned l_true
\* holds true for a variable whose positive literal is true, false for one
\* whose negative literal is true, and undef for an unassigned variable.
C14_ModelTriValued ==
  SearchSat
    => LET m == init_model(State).m_model
       IN \A v \in Vars :
            /\ is_true(State, mk_literal(v, FALSE)) => m[v + 1] = "l_true"
            /\ is_true(State, mk_literal(v, TRUE)) => m[v + 1] = "l_false"
            /\ is_undef(State, mk_literal(v, FALSE)) => m[v + 1] = "l_undef"


\* ------------------------------------------------------------ cancellation
\* checkpoint() throws solver_exception when the resource limit is reached or
\* memory is exhausted.  Nothing in lookahead catches it: the exception
\* leaves search(), and of the objects on the stack only scoped_level has a
\* destructor, which restores m_level.
checkpoint_throws(s) == [s EXCEPT !.m_level = 2]

\* The checkpoint() of the loop of search() throws, after inc_istamp().
CheckpointThrowsSearch ==
  /\ pc = "search"
  /\ SetState(checkpoint_throws(inc_istamp(State)))
  /\ pc' = "cancelled"
  /\ result' = "solver_exception"
  /\ UNCHANGED << inputs, trail, lit_chosen, cw, m_rand, history, learned >>

\* The checkpoint() at the head of the for loop of compute_wnb() throws.
CheckpointThrowsWnb ==
  /\ pc = "cw_for"
  /\ ~m_inconsistent /\ cw.i <= Len(m_lookahead)
  /\ SetState(checkpoint_throws(State))
  /\ pc' = "cancelled"
  /\ result' = "solver_exception"
  /\ UNCHANGED << inputs, trail, lit_chosen, cw, m_rand, history, learned >>

NextCancel ==
  \/ Next
  \/ CheckpointThrowsSearch
  \/ CheckpointThrowsWnb

SpecCancel == Init /\ [][NextCancel]_vars

\* C15: when checkpoint() has thrown, every scope opened by push or init_wnb
\* has been popped: the scope stacks have the lengths they had when search()
\* was called, which is zero.
C15_CancelUnwinds ==
  pc = "cancelled"
    => /\ m_trail_lim = << >>
       /\ m_qhead_lim = << >>
       /\ m_binary_trail_lim = << >>
       /\ m_num_tc1_lim = << >>
       /\ m_retired_clause_lim = << >>
       /\ m_retired_ternary_lim = << >>
       /\ m_assumptions = << >>


\* --------------------------------------------------------------- empty pop
\* pop() with m_assumptions empty writes "empty pop" to the verbose stream and
\* goes on: pop_back() and back() of the empty vectors are undefined.  The
\* outcomes are the assertion of vector::pop_back() stopping a debug build,
\* and a release build clearing m_inconsistent and undoing the trail down to
\* whatever old_sz it reads past the end of m_trail_lim.
pop_empty(s) ==
  { [detected |-> TRUE, state |-> s] }
  \cup { [detected |-> FALSE,
          state |-> [pop_undo_trail([s EXCEPT !.m_inconsistent = FALSE],
                                    Len(s.m_trail), old_sz)
                       EXCEPT !.m_trail = Shrink(@, old_sz)]] :
           old_sz \in 0 .. Len(s.m_trail) }

pop_outcomes(s) ==
  IF s.m_assumptions = << >> THEN pop_empty(s)
  ELSE { [detected |-> FALSE, state |-> pop(s)] }

NoScopeOpen == Quiescent /\ pc # "init_search" /\ scopes = << >>

\* C16: pop() called with no scope open is detected as an error and leaves
\* the solver state as it was.
C16_EmptyPopRejected ==
  NoScopeOpen
    => \A o \in pop_outcomes(State) : o.detected /\ o.state = State


\* ------------------------------------------------------------ watch lists
has_clause_watch(s, l, cls_off) ==
  \E k \in 1 .. Len(s.m_watches[l]) :
    s.m_watches[l][k].kind = "CLAUSE" /\ s.m_watches[l][k].off = cls_off

has_ternary_watch(s, l, l1, l2) ==
  \E k \in 1 .. Len(s.m_watches[l]) : s.m_watches[l][k] = watched_ternary(l1, l2)

retired_clause(s, cls_off) == Contains(s.m_retired_clauses, cls_off)

retired_ternary(s, c) ==
  \E k \in 1 .. Len(s.m_retired_ternary) : Range(s.m_retired_ternary[k]) = Range(c)

clause_watched(s, cls_off) ==
  LET c == s.m_clauses[cls_off]
  IN IF Len(c) = 3
     THEN retired_ternary(s, c)
          \/ /\ has_ternary_watch(s, neg(c[1]), c[2], c[3])
             /\ has_ternary_watch(s, neg(c[2]), c[1], c[3])
             /\ has_ternary_watch(s, neg(c[3]), c[1], c[2])
     ELSE retired_clause(s, cls_off)
          \/ /\ has_clause_watch(s, neg(c[1]), cls_off)
             /\ has_clause_watch(s, neg(c[2]), cls_off)

\* C17: at every quiescent point a clause of more than three literals that
\* is not retired has a watch in the lists of ~c[0] and ~c[1], and a ternary
\* that is not retired has a watch in the lists of the negations of its three
\* literals.
C17_WatchesAttached ==
  Quiescent => \A i \in 1 .. Len(m_clauses) : clause_watched(State, i)


\* A clause of more than three literals whose watches have moved off its
\* first two input literals and that is attached.
watch_moved(s, i) ==
  /\ Len(s.m_clauses[i]) > 3
  /\ ~retired_clause(s, i)
  /\ {s.m_clauses[i][1], s.m_clauses[i][2]} # {in_clauses[i][1], in_clauses[i][2]}

\* A pop() has just re-attached a clause that the propagation of its scope
\* had retired, and an attached clause has moved watches.
C17_Witness ==
  /\ Quiescent
  /\ popped.valid
  /\ Len(popped.before_pop.m_retired_clauses) > Len(m_retired_clauses)
  /\ \E i \in 1 .. Len(m_clauses) : watch_moved(State, i)


\* -------------------------------------------------------- select_lookahead
\* scoped_assumptions: push() of every assumption in order, pop() once for
\* each on the way out.
RECURSIVE push_assumptions(_, _, _)
push_assumptions(s, lits, i) ==
  IF i > Len(lits) THEN s
  ELSE push_assumptions(push(s, lits[i], c_fixed_truth), lits, i + 1)

RECURSIVE pop_assumptions(_, _)
pop_assumptions(s, n) == IF n = 0 THEN s ELSE pop_assumptions(pop(s), n - 1)

\* select_lookahead() up to the call of choose(), or to its early return.
select_lookahead_enter(s, bins, clauses, units, assumptions, vs) ==
  LET entered(r) ==
        IF r.m_inconsistent THEN r
        ELSE push_assumptions(
               [inc_istamp(r) EXCEPT !.m_select_lookahead_vars = vs],
               assumptions, 1)
  IN entered(init(with_level([s EXCEPT !.m_search_mode = "searching"],
                             c_fixed_truth),
                  bins, clauses, units))

\* The state select_lookahead() leaves when choose() has returned.
select_lookahead_leave(s, assumptions) ==
  [pop_assumptions([s EXCEPT !.m_select_lookahead_vars = {}], Len(assumptions))
     EXCEPT !.m_level = 2]

AssumptionSets ==
  { << >>, << P(1) >>, << N(2) >>, << P(1), N(3) >>, << N(1), P(2) >>,
    << P(2), N(2) >> }

VarSets == (SUBSET Vars) \ {{}}

InitSelect ==
  InitArgs(Scenarios, AssumptionSets, VarSets) /\ lv = NoLevels
  /\ hc = NoCut

SelectLookaheadCall ==
  /\ pc = "init_search"
  /\ LET done(s) ==
           IF init(with_level([State EXCEPT !.m_search_mode = "searching"],
                              c_fixed_truth),
                   in_binary, in_clauses, in_units).m_inconsistent
           THEN /\ SetState([s EXCEPT !.m_level = 2])
                /\ pc' = "returned"
                /\ result' = "inconsistent"
           ELSE /\ SetState(s)
                /\ pc' = "choose"
                /\ result' = result
     IN done(select_lookahead_enter(State, in_binary, in_clauses, in_units,
                                    in_assumptions, in_vars))
  /\ lit_chosen' = null_literal
  /\ UNCHANGED << inputs, trail, cw, m_rand, history, learned >>

SelectLookaheadReturn ==
  /\ pc = "chosen"
  /\ SetState(select_lookahead_leave(State, in_assumptions))
  /\ lit_chosen' = IF m_inconsistent THEN null_literal ELSE lit_chosen
  /\ result' = IF m_inconsistent THEN "inconsistent" ELSE "consistent"
  /\ pc' = "returned"
  /\ UNCHANGED << inputs, trail, cw, m_rand, history, learned >>

NextSelect ==
  \/ SelectLookaheadCall
  \/ PreSelect
  \/ FindHeights
  \/ ComputeWnbInit
  \/ ComputeWnbWhile
  \/ ComputeWnbProbe
  \/ ComputeWnbRoundEnd
  \/ ComputeWnbExit
  \/ SelectLiteral
  \/ SelectLookaheadReturn

SpecSelect == InitSelect /\ [][NextSelect]_vars

\* C18: when select_lookahead(assumptions, vars) returns, with vars not
\* empty, the literal returned is null_literal or a literal of a variable of
\* vars that is unassigned; it is null_literal when the state was
\* inconsistent; and every scope pushed for the assumptions has been popped.
C18_SelectLookaheadReturns ==
  pc = "returned"
    => /\ \/ lit_chosen = null_literal
          \/ /\ var(lit_chosen) \in in_vars
             /\ ~is_fixed_at(State, lit_chosen, c_fixed_truth)
       /\ result = "inconsistent" => lit_chosen = null_literal
       /\ m_assumptions = << >>
       /\ m_trail_lim = << >>
       /\ m_qhead_lim = << >>
       /\ m_binary_trail_lim = << >>
       /\ m_num_tc1_lim = << >>
       /\ m_retired_clause_lim = << >>
       /\ m_retired_ternary_lim = << >>


\* select_lookahead() has returned a literal after two assumptions, with a
\* variable outside vars still unassigned.
C18_Witness ==
  /\ pc = "returned"
  /\ lit_chosen # null_literal
  /\ Len(in_assumptions) = 2
  /\ \E v \in Vars \ in_vars : m_stamp[v] < c_fixed_truth


\* ------------------------------------------------------ propagation order
\* The state that push() hands to propagate() when search() decides l, and
\* the state that push_lookahead1 hands to it for the pending probe.  The
\* scope marks that push() writes are not read by propagate().
decision_queued(s, l) == assign(with_level(s, c_fixed_truth), l)

probe_queued ==
  assign([with_level(reset_wnb_lit(State, probe_lit), probe_level)
            EXCEPT !.m_search_mode = "lookahead1"],
         probe_lit)

\* The states on which propagate() is about to run.
Queued ==
  IF pc = "chosen" /\ ~m_inconsistent
  THEN { decision_queued(State, l) : l \in { d \in Lits : is_undef(State, d) } }
  ELSE IF ProbePending THEN { probe_queued }
  ELSE {}

binary_done(t, l) ==
  \A k \in 1 .. Len(t.m_binary[l]) : is_true(t, t.m_binary[l][k])

\* The literals of the window and those appended since are true.  Entries
\* before the window may be left from probes at lower levels.
trail_assigned(t, qhead) ==
  \A k \in (qhead + 1) .. Len(t.m_trail) : is_true(t, t.m_trail[k])

\* t is the state in which propagate_clauses() starts on trail position i
\* of the window that began after qhead; s1 is the state after the binary
\* pass over the window.
position_ordered(s1, qhead, i) ==
  LET t == propagate_pass2(s1, qhead + 1, i - 1)
  IN ~t.m_inconsistent => binary_done(t, t.m_trail[i]) /\ trail_assigned(t, qhead)

\* The windows of propagate(s), each checked at each of its positions.
RECURSIVE propagate_ordered(_)
propagate_ordered(s) ==
  IF s.m_inconsistent \/ s.m_qhead >= Len(s.m_trail) THEN TRUE
  ELSE LET sz == Len(s.m_trail)
           s1 == propagate_pass1(s, s.m_qhead + 1, sz)
           s2 == propagate_pass2(s1, s.m_qhead + 1, sz)
       IN /\ \A i \in (s.m_qhead + 1) .. sz : position_ordered(s1, s.m_qhead, i)
          /\ propagate_ordered([s2 EXCEPT !.m_qhead = sz])

\* C19: in every window of propagate(), when the clause propagation of a
\* trail position starts, every literal of the binary adjacency list of that
\* position is true, and every literal of the window and every literal
\* appended by the clause propagation of the positions before it is assigned.
C19_BinaryBeforeClauses == \A s \in Queued : propagate_ordered(s)


\* propagate() after its first window.
next_window(s) ==
  LET sz == Len(s.m_trail)
  IN [propagate_pass2(propagate_pass1(s, s.m_qhead + 1, sz), s.m_qhead + 1, sz)
        EXCEPT !.m_qhead = sz]

\* The clause propagation of position i puts a literal on the trail.
clause_appends(s1, qhead, i) ==
  Len(propagate_pass2(s1, qhead + 1, i).m_trail)
    > Len(propagate_pass2(s1, qhead + 1, i - 1).m_trail)

\* A second window of propagate() in which the clause propagation of one
\* position appends a literal and the next position, which has binary
\* clauses, is processed without a conflict.
C19_Witness ==
  \E s \in Queued :
    LET w == next_window(s)
        sz == Len(w.m_trail)
        s1 == propagate_pass1(w, w.m_qhead + 1, sz)
    IN /\ ~w.m_inconsistent
       /\ \E i \in (w.m_qhead + 1) .. (sz - 1) :
            /\ clause_appends(s1, w.m_qhead, i)
            /\ w.m_binary[w.m_trail[i + 1]] # << >>
            /\ ~propagate_pass2(s1, w.m_qhead + 1, i + 1).m_inconsistent


\* ------------------------------------------------------- stop at conflict
\* The binary pass of a window meets its conflict at entry n of the list of
\* position i: nothing is assigned by that entry or after it, and propagate()
\* returns the state of that moment with m_qhead at the end of the window.
stops_in_binary(s, sz, final) ==
  \E i \in (s.m_qhead + 1) .. sz :
    LET b == propagate_pass1(s, s.m_qhead + 1, i - 1)
        l == s.m_trail[i]
    IN /\ ~b.m_inconsistent
       /\ \E n \in 1 .. Len(b.m_binary[l]) :
            LET c0 == propagate_binary_loop(b, l, 1, n - 1)
            IN /\ ~c0.m_inconsistent
               /\ is_false(c0, b.m_binary[l][n])
               /\ final = [set_conflict(c0) EXCEPT !.m_qhead = sz]

\* propagate_clauses(t, l) on the first k entries of the watch list of l.
propagate_clauses_upto(t, l, k) ==
  propagate_clauses([t EXCEPT !.m_watches[l] = SubSeq(@, 1, k)], l)

\* The clause pass of a window meets its conflict at entry n of the watch
\* list of position i: that entry is kept, the entries after it are neither
\* processed nor changed, and propagate() returns the state of that moment
\* with m_qhead at the end of the window.
stops_in_clauses(s1, qhead, sz, final) ==
  \E i \in (qhead + 1) .. sz :
    LET t == propagate_pass2(s1, qhead + 1, i - 1)
        l == s1.m_trail[i]
        wl == t.m_watches[l]
    IN /\ ~t.m_inconsistent
       /\ \E n \in 1 .. Len(wl) :
            LET c == propagate_clauses_upto(t, l, n)
            IN /\ ~propagate_clauses_upto(t, l, n - 1).m_inconsistent
               /\ c.m_inconsistent
               /\ Last(c.m_watches[l]) = wl[n]
               /\ final = [c EXCEPT
                             !.m_watches[l] = @ \o SubSeq(wl, n + 1, Len(wl)),
                             !.m_qhead = sz]

\* The windows of propagate(s) up to the one with a conflict, if any.
RECURSIVE propagate_stops(_, _)
propagate_stops(s, final) ==
  IF s.m_inconsistent \/ s.m_qhead >= Len(s.m_trail) THEN final = s
  ELSE LET sz == Len(s.m_trail)
           s1 == propagate_pass1(s, s.m_qhead + 1, sz)
           s2 == propagate_pass2(s1, s.m_qhead + 1, sz)
       IN IF s1.m_inconsistent THEN stops_in_binary(s, sz, final)
          ELSE IF s2.m_inconsistent
          THEN stops_in_clauses(s1, s.m_qhead, sz, final)
          ELSE propagate_stops([s2 EXCEPT !.m_qhead = sz], final)

\* C20: when propagate() meets a conflict it returns the state in which the
\* conflict was found, with the inconsistent flag set, the conflicting watch
\* and the watches after it kept as they were, no literal assigned and no
\* watch processed after the conflict, and m_qhead at the end of the window
\* of the conflict.
C20_StopsAtConflict ==
  \A s \in Queued :
    /\ propagate_stops(s, propagate(s))
    /\ propagate(s).m_inconsistent => propagate(s).m_qhead <= Len(propagate(s).m_trail)


\* In the window that starts at w the clause pass meets a conflict at a
\* watch that is not the last of its list, with literals on the trail beyond
\* the window.
conflict_before_rest(w) ==
  LET sz == Len(w.m_trail)
      s1 == propagate_pass1(w, w.m_qhead + 1, sz)
  IN /\ ~w.m_inconsistent /\ ~s1.m_inconsistent
     /\ \E i \in (w.m_qhead + 1) .. sz :
          LET t == propagate_pass2(s1, w.m_qhead + 1, i - 1)
              l == w.m_trail[i]
          IN /\ ~t.m_inconsistent
             /\ Len(t.m_trail) > sz
             /\ \E n \in 1 .. (Len(t.m_watches[l]) - 1) :
                  /\ ~propagate_clauses_upto(t, l, n - 1).m_inconsistent
                  /\ propagate_clauses_upto(t, l, n).m_inconsistent

\* A propagate() whose first or second window has such a conflict.
C20_Witness ==
  \E s \in Queued : conflict_before_rest(s) \/ conflict_before_rest(next_window(s))

\* ------------------------------------------------- frame of the lookahead
\* The members that only searching-mode propagation writes.
search_frame(s) ==
  << s.m_binary, s.m_binary_trail, s.m_retired_clauses, s.m_retired_ternary,
     s.m_freevars >>

\* The pending probe after push_lookahead1 alone, and after a double look
\* from there (lookahead2 probes of every table entry) where the levels fit.
probe_lookahead1 ==
  push_lookahead1(reset_wnb_lit(State, probe_lit), probe_lit, probe_level)

probe_lookahead2 ==
  IF ~probe_lookahead1.m_inconsistent /\ dl_no_overflow(probe_lookahead1, cw.base)
  THEN double_look(probe_lookahead1, probe_lit, cw.base)[1]
  ELSE probe_lookahead1

\* The same literal propagated as a decision of search().
probe_as_decision == propagate(decision_queued(State, probe_lit))

\* C21: propagation in lookahead1 or lookahead2 mode leaves the binary
\* adjacency lists, the binary trail, the retired clauses, the retired
\* ternaries and the free variables as they were; a clause reduced to two
\* undef literals is detached and handed to try_add_binary only in
\* searching mode.
C21_LookaheadFrame ==
  (ProbePending /\ probe_made) =>
    /\ search_frame(probe_lookahead1) = search_frame(State)
    /\ search_frame(probe_lookahead2) = search_frame(State)
    /\ search_frame(probe_pushed) = search_frame(State)

\* A probe that reduces a clause to two undef literals and runs lookahead2
\* probes, where the same literal as a decision retires the clause and
\* records a binary.
C21_Witness ==
  /\ ProbePending /\ probe_made
  /\ probe_lookahead1.m_weighted_new_binaries > 0
  /\ probe_lookahead2.m_trail # probe_lookahead1.m_trail
  /\ probe_as_decision.m_binary_trail # m_binary_trail
  /\ Len(probe_as_decision.m_retired_ternary)
       + Len(probe_as_decision.m_retired_clauses)
     > Len(m_retired_ternary) + Len(m_retired_clauses)


\* ------------------------------------------------------------- add_binary
\* add_binary asserts l1 # l2.
binary_skipped(s, u, v) ==
  \/ neg(u) = v
  \/ s.m_binary[neg(u)] # << >> /\ Last(s.m_binary[neg(u)]) = v

binary_appended(s, t, u, v) ==
  /\ t.m_binary[neg(u)] = Append(s.m_binary[neg(u)], v)
  /\ t.m_binary[neg(v)] = Append(s.m_binary[neg(v)], u)
  /\ \A l \in Lits \ {neg(u), neg(v)} : t.m_binary[l] = s.m_binary[l]
  /\ t.m_binary_trail = Append(s.m_binary_trail, neg(u))

\* C22: add_binary(u, v) leaves the adjacency lists and the binary trail
\* as they are when ~u = v or when the last element of adj(~u) is v;
\* otherwise it appends v to adj(~u), u to adj(~v) and the one entry ~u to
\* the binary trail.
C22_AddBinary ==
  \A u, v \in Lits :
    u # v =>
      IF binary_skipped(State, u, v)
      THEN /\ add_binary(State, u, v).m_binary = m_binary
           /\ add_binary(State, u, v).m_binary_trail = m_binary_trail
      ELSE binary_appended(State, add_binary(State, u, v), u, v)

\* A state with binaries learned during the search where one call is
\* skipped because v is the back of adj(~u) and another appends v although
\* adj(~u) holds it further to the front.
C22_Witness ==
  /\ m_binary_trail # << >>
  /\ m_trail_lim # << >>
  /\ \E u, v \in Lits :
       /\ u # v /\ neg(u) # v
       /\ m_binary[neg(u)] # << >> /\ Last(m_binary[neg(u)]) = v
  /\ \E u, v \in Lits :
       /\ u # v /\ neg(u) # v
       /\ Contains(m_binary[neg(u)], v) /\ Last(m_binary[neg(u)]) # v
       /\ Len(add_binary(State, u, v).m_binary[neg(u)])
            = Len(m_binary[neg(u)]) + 1


\* ------------------------------------------------ units of try_add_binary
\* The binary clauses that the adjacency lists of s record.
binary_clauses(s) ==
  UNION { { {neg(a), s.m_binary[a][k]} : k \in 1 .. Len(s.m_binary[a]) } :
            a \in Lits }

\* The literals that an operation assigned on its way from s to t.
units_between(s, t) == { l \in Lits : is_undef(s, l) /\ is_true(t, l) }

\* The states in which propagate_clauses calls try_add_binary: searching
\* mode, between two operations of search() or with a decision queued, and
\* the two literals undef and of different variables.
BinaryCallStates ==
  IF Quiescent /\ ~m_inconsistent /\ m_search_mode = "searching"
  THEN {State} \cup Queued
  ELSE {}

binary_call(s, u, v) ==
  /\ var(u) # var(v) /\ is_undef(s, u) /\ is_undef(s, v)

try_add_binary_sound(s, u, v) ==
  LET t == try_add_binary(s, u, v)
      units == units_between(s, t)
  IN /\ \A l \in units : Entails(binary_clauses(s) \cup {{u, v}}, {}, l)
     /\ ~t.m_inconsistent
     /\ (units = {} /\ ~has_binary(s.m_binary, u, v))
          => has_binary(t.m_binary, u, v) /\ has_binary(t.m_binary, v, u)

\* C23: every unit that try_add_binary(u, v) or its add_tc1 assigns follows
\* from (u v v) and the binaries recorded in the adjacency lists at the
\* call; when no unit is derived and (u v v) is not recorded, it is added.
C23_UnitsAreConsequences ==
  \A s \in BinaryCallStates : \A u, v \in Lits :
    binary_call(s, u, v) => try_add_binary_sound(s, u, v)

\* A call whose unit comes from add_tc1 (the stamps of ~u do not hold ~v),
\* and in the same state a call that derives no unit and adds its binary.
C23_Witness ==
  \E s \in BinaryCallStates : \E u, v, x, y \in Lits :
    /\ binary_call(s, u, v) /\ binary_call(s, x, y)
    /\ ~is_stamped(set_bstamps(s, neg(u)), neg(v))
    /\ ~add_tc1(set_bstamps(s, neg(u)), u, v)[2]
    /\ units_between(s, try_add_binary(s, u, v)) = {u}
    /\ units_between(s, try_add_binary(s, x, y)) = {}
    /\ ~has_binary(s.m_binary, x, y)
    /\ s.m_num_tc1 < try_add_binary(s, x, y).m_num_tc1


\* ------------------------------------------------------------ tc1 budget
\* add_tc1(u, v) as try_add_binary calls it first, on the stamps of ~u.
tc1_call(s, u, v) == add_tc1(set_bstamps(s, neg(u)), u, v)[1]

\* What one call of add_tc1 adds to the counter and to the binary trail.
tc1_spent(s, u, v) == tc1_call(s, u, v).m_num_tc1 - s.m_num_tc1
tc1_added(s, u, v) ==
  Len(tc1_call(s, u, v).m_binary_trail) - Len(s.m_binary_trail)

\* Every binary that the call recorded is (u v w) for a w of adj(v).
tc1_closure(s, u, v) ==
  \A k \in Len(s.m_binary[neg(u)]) + 1 .. Len(tc1_call(s, u, v).m_binary[neg(u)]) :
    Contains(s.m_binary[v], tc1_call(s, u, v).m_binary[neg(u)][k])

\* C24 as stated: the counter stays within tc1_limit, pop() puts it back to
\* its value at the matching push(), and add_tc1 raises it by exactly one
\* for each closure binary it adds.
C24_Tc1CountsAdded ==
  /\ m_num_tc1 <= tc1_limit
  /\ popped.valid => m_num_tc1 = popped.at_push.m_num_tc1
  /\ \A s \in BinaryCallStates : \A u, v \in Lits :
       binary_call(s, u, v) => tc1_spent(s, u, v) = tc1_added(s, u, v)

\* C24, amended: the counter stays within tc1_limit and pop() puts it back
\* to its value at the matching push(); add_tc1 records closure binaries
\* (u v w), w in adj(v), only while the counter is below tc1_limit, and the
\* counter rises by one for each call of add_binary, also for one that
\* add_binary drops because w is ~u or the back of adj(~u).
C24_Tc1Bounded ==
  /\ m_num_tc1 <= tc1_limit
  /\ popped.valid => m_num_tc1 = popped.at_push.m_num_tc1
  /\ \A s \in BinaryCallStates : \A u, v \in Lits :
       binary_call(s, u, v) =>
         /\ tc1_added(s, u, v) <= tc1_spent(s, u, v)
         /\ tc1_call(s, u, v).m_num_tc1 <= tc1_limit
         /\ tc1_closure(s, u, v)


\* A pop() has put the counter back from a higher value, and in the state it
\* leaves one call of add_tc1 adds a closure binary while another spends
\* budget on a binary that add_binary drops.
C24_Witness ==
  /\ popped.valid
  /\ popped.before_pop.m_num_tc1 > popped.at_push.m_num_tc1
  /\ \E s \in BinaryCallStates : \E u, v \in Lits :
       /\ binary_call(s, u, v)
       /\ tc1_spent(s, u, v) > tc1_added(s, u, v)
  /\ \E s \in BinaryCallStates : \E u, v \in Lits :
       /\ binary_call(s, u, v)
       /\ tc1_added(s, u, v) > 0

\* ------------------------------------------------------------ stamp epochs
\* inc_bstamp and inc_istamp change nothing but the epoch while it does not
\* wrap, so the state after the calls that lead to the last epoch is the
\* state with that epoch; there set_bstamps(l) stamps l and adj(l), and
\* dl_disable(l) marks l.
last_bstamp_epoch(s) ==
  IF s.m_bstamp_id < UINT_MAX
  THEN { set_bstamps([s EXCEPT !.m_bstamp_id = UINT_MAX - 1], l) : l \in Lits }
  ELSE {}

last_istamp_epoch(s) ==
  IF s.m_istamp_id < UINT_MAX
  THEN { dl_disable([s EXCEPT !.m_istamp_id = UINT_MAX], l) : l \in Lits }
  ELSE {}

bstamp_fresh(t) ==
  t.m_bstamp_id # 0 /\ \A l \in Lits : ~is_stamped(t, l)

istamp_fresh(t) ==
  t.m_istamp_id # 0 /\ \A l \in Lits : dl_enabled(t, l)

\* C25: straight after inc_bstamp(), also where the epoch counter wraps,
\* the epoch is not 0 and no literal carries it as its stamp; straight
\* after inc_istamp() no literal carries the new epoch as its double
\* lookahead stamp.
C25_EpochsFresh ==
  /\ \A s \in {State} \cup last_bstamp_epoch(State) :
       bstamp_fresh(inc_bstamp(s))
  /\ \A s \in {State} \cup last_istamp_epoch(State) :
       istamp_fresh(inc_istamp(s))

\* try_add_binary has stamped literals and a double look has marked one in
\* the current epochs, and both counters wrap from the last epoch with
\* stamped literals in the tables.
C25_Witness ==
  /\ m_bstamp_id > 1 /\ \E l \in Lits : is_stamped(State, l)
  /\ m_istamp_id > 1 /\ \E l \in Lits : ~dl_enabled(State, l)
  /\ \E s \in last_bstamp_epoch(State) :
       /\ s.m_bstamp_id = UINT_MAX /\ \E l \in Lits : is_stamped(s, l)
       /\ \E l \in Lits : s.m_bstamp[l] = 1
       /\ inc_bstamp(s).m_bstamp_id = 1
  /\ \E s \in last_istamp_epoch(State) :
       /\ \E l \in Lits : s.m_lits[l].m_double_lookahead \notin {0, UINT_MAX}
       /\ \E l \in Lits : ~dl_enabled(s, l)
       /\ inc_istamp(s).m_istamp_id = 1

\* --------------------------------------------------------- probe levels
\* The levels of compute_wnb(), do_double() and double_look() as the code
\* computes them, in unsigned arithmetic, for tables of up to MaxTable
\* entries and dl_max_iterations up to MaxDlIterations.  What the code
\* reads from the assignment (a literal is fixed, a probe or a double look
\* fails, get_wnb(l) passes m_delta_trigger) is open.
MaxTable == 5
MaxDlIterations == 4

unsigned(x) == x % (UINT_MAX + 1)

\* construct_lookahead_table gives entry i of a forest without arcs the
\* offset 2(i - 1), and of a forest that is one chain the offset 2(n - i).
TableOffsets(n) ==
  { table([i \in 1 .. n |-> 2 * (i - 1)]), table([i \in 1 .. n |-> 2 * (n - i)]) }

LevelInputs ==
  UNION { { [size |-> n, dl_max |-> d, offset |-> o, base |-> 2, i |-> 1,
             first |-> TRUE, change |-> TRUE, fixed |-> {}, dl_done |-> {},
             used |-> {}, at |-> "while"] : o \in TableOffsets(n) } :
          n \in 1 .. MaxTable, d \in 0 .. MaxDlIterations }

\* The solver is as constructed and stays so.
InitLevels ==
  /\ InitArgs({Formula(<< >>, SignPatterns(16), << >>)}, {<< >>}, {{}})
  /\ lv \in LevelInputs
  /\ hc = NoCut

\* dl_no_overflow computes in 64 bits.
levels_dl_no_overflow(l) ==
  l.base + 2 * l.size * (l.dl_max + 1) < c_fixed_truth

levels_dl_truth(l) == unsigned(l.base + 2 * l.size * (l.dl_max + 1))

\* The lookahead2 levels of the first rounds iterations of double_look:
\* base is advanced by twice the table size before each.
levels_lookahead2(l, rounds) ==
  { << "lookahead2", unsigned(l.base + 2 * l.size * j + l.offset[m]) >> :
      j \in 1 .. rounds, m \in 1 .. l.size }

\* while (change && !inconsistent()) { change = false; for ...
LevelsWhile ==
  /\ lv.at = "while"
  /\ lv' = IF lv.change
           THEN [lv EXCEPT !.change = FALSE, !.i = 1, !.used = {}, !.at = "for"]
           ELSE [lv EXCEPT !.used = {}, !.at = "done"]
  /\ UNCHANGED << inputs, solver, control, history, windfalls, hc,
                  explored >>

\* An entry that is fixed at c_fixed_truth, or whose stamp is at or above
\* its level, is passed over.
LevelsSkip ==
  /\ lv.at = "for" /\ lv.i <= lv.size
  /\ lv' = [lv EXCEPT !.i = @ + 1, !.used = {}]
  /\ UNCHANGED << inputs, solver, control, history, windfalls, hc,
                  explored >>

\* push_lookahead1 at base + offset, without a double look; the probe may
\* fail, which fixes the literal and sets change.
LevelsProbe ==
  /\ lv.at = "for" /\ lv.i <= lv.size /\ lv.i \notin lv.fixed
  /\ \E unsat \in BOOLEAN :
       lv' = [lv EXCEPT
                !.used = {<< "lookahead1", unsigned(lv.base + lv.offset[lv.i]) >>},
                !.fixed = IF unsat THEN @ \cup {lv.i} ELSE @,
                !.change = @ \/ unsat,
                !.i = @ + 1]
  /\ UNCHANGED << inputs, solver, control, history, windfalls, hc,
                  explored >>

\* push_lookahead1 followed by do_double where it runs double_look: not in
\* the first round, the entry still enabled, and dl_no_overflow(base).
\* double_look makes up to dl_max_iterations rounds of lookahead2 probes and
\* leaves dl_truth in base.
LevelsDouble ==
  /\ lv.at = "for" /\ lv.i <= lv.size /\ lv.i \notin lv.fixed
  /\ ~lv.first /\ lv.i \notin lv.dl_done
  /\ levels_dl_no_overflow(lv)
  /\ \E unsat \in BOOLEAN : \E rounds \in 0 .. lv.dl_max :
       lv' = [lv EXCEPT
                !.used = {<< "lookahead1", unsigned(lv.base + lv.offset[lv.i]) >>,
                          << "dl_truth", levels_dl_truth(lv) >>}
                         \cup levels_lookahead2(lv, rounds),
                !.base = levels_dl_truth(lv),
                !.dl_done = @ \cup {lv.i},
                !.fixed = IF unsat THEN @ \cup {lv.i} ELSE @,
                !.change = @ \/ unsat,
                !.i = @ + 1]
  /\ UNCHANGED << inputs, solver, control, history, windfalls, hc,
                  explored >>

\* The end of the for loop: the break on the base, the switch from the
\* first round to the rounds with double looks.
LevelsRoundEnd ==
  /\ lv.at = "for" /\ lv.i > lv.size
  /\ lv' = IF unsigned(c_fixed_truth - 2 * lv.size) < lv.base
           THEN [lv EXCEPT !.used = {}, !.at = "done"]
           ELSE IF lv.first /\ ~lv.change
           THEN [lv EXCEPT !.first = FALSE, !.change = TRUE, !.used = {},
                           !.at = "while"]
           ELSE [lv EXCEPT !.used = {}, !.at = "while"]
  /\ UNCHANGED << inputs, solver, control, history, windfalls, hc,
                  explored >>

NextLevels ==
  \/ LevelsWhile
  \/ LevelsSkip
  \/ LevelsProbe
  \/ LevelsDouble
  \/ LevelsRoundEnd

SpecLevels == InitLevels /\ [][NextLevels]_vars

ProbeFails == ProbePending /\ probe_made /\ probe_failed

\* What the step of compute_wnb() on a failed probe of l leaves: searching
\* mode, ~l true at c_fixed_truth, change set, and either a conflict of ~l
\* or the trail of ~l propagated, with the binaries of ~l true.
failed_literal_fixed(l) ==
  /\ m_search_mode' = "searching"
  /\ cw'.change
  /\ fixed_true(neg(l))'
  /\ windfalls' = windfalls
  /\ \/ m_inconsistent'
     \/ /\ m_qhead' = Len(m_trail')
        /\ \A w \in Lits :
             Contains(m_binary'[neg(l)], w) => fixed_true(w)'

\* C27: when a lookahead1 probe of l ends in conflict, pop_lookahead1 leaves
\* searching mode with the conflict flag down and adds no windfall binary;
\* compute_wnb() then assigns ~l at c_fixed_truth, propagates it and sets
\* change; and what is true at c_fixed_truth stays true over every further
\* step of compute_wnb(), its return included.
C27_FailedLiteralStays ==
  [][/\ ProbeFails =>
          /\ ~probe_popped.m_inconsistent
          /\ probe_popped.m_search_mode = "searching"
          /\ probe_popped.m_binary = m_binary
          /\ probe_popped.m_binary_trail = m_binary_trail
          /\ \A l \in {probe_lit} : failed_literal_fixed(l)
     /\ pc \in {"cw_for", "cw_while", "cw_exit"}
          => \A x \in Lits : fixed_true(x) => fixed_true(x)']_vars

\* A failed probe that leaves windfalls on m_wstack, whose literal ~l is
\* then fixed with a consequence, without conflict.
C27_Witness ==
  /\ ProbeFails
  /\ probe_pushed.m_wstack # << >>
  /\ \E r \in {compute_wnb_body(State, cw)} :
       /\ ~r[1].m_inconsistent
       /\ r[2].change
       /\ is_true(r[1], neg(probe_lit))
       /\ Len(r[1].m_trail) > Len(reset_wnb(probe_popped).m_trail) + 1


\* ------------------------------------------------------- lookahead table
\* The class representatives that get_scc() has left: the candidate
\* literals that are their own parent.
class_roots(s) == { u \in CandidateLits : get_parent(s, u) = u }

\* The forest of find_heights() in depth-first preorder: a node, then its
\* children, then its later siblings.  A walk longer than the number of
\* literals has met a node twice and ends with null_literal.
RECURSIVE forest_preorder(_, _, _)
forest_preorder(s, u, fuel) ==
  IF u = null_literal THEN << >>
  ELSE IF fuel = 0 THEN << null_literal >>
  ELSE << u >> \o forest_preorder(s, get_child(s, u), fuel - 1)
              \o forest_preorder(s, get_link(s, u), fuel - 1)

forest(s) == forest_preorder(s, get_child(s, null_literal), 2 * NumVars + 1)

table_offsets(s) ==
  { s.m_lookahead[i].m_offset : i \in 1 .. Len(s.m_lookahead) }

table_of_forest(s, s2) ==
  /\ null_literal \notin Range(forest(s))
  /\ Len(s2.m_lookahead) = Len(forest(s))
  /\ \A i \in 1 .. Len(forest(s)) :
       s2.m_lookahead[i].m_lit = get_vcomp(s, forest(s)[i])
  /\ \A i \in 1 .. Len(s2.m_lookahead) : \A j \in 1 .. Len(s2.m_lookahead) :
       i # j => s2.m_lookahead[i].m_offset # s2.m_lookahead[j].m_offset
  /\ table_offsets(s2) = { 2 * k : k \in 0 .. Len(s2.m_lookahead) - 1 }

\* C28: construct_lookahead_table() ends and leaves one entry for each class
\* root of the forest, in depth-first preorder, with pairwise distinct even
\* offsets that are exactly 0, 2, ..., 2 * |table| - 2.
C28_TableOfForest ==
  pc = "find_heights" =>
    /\ Range(forest(find_heights(State))) = class_roots(State)
    /\ Len(forest(find_heights(State))) = Cardinality(class_roots(State))
    /\ table_of_forest(find_heights(State), pre_select_table(State))

\* A forest with a root that has a child and a later sibling, so that the
\* offsets are not in table order.
C28_Witness ==
  /\ pc = "find_heights"
  /\ \E u \in class_roots(State) :
       /\ get_child(find_heights(State), u) # null_literal
       /\ get_link(find_heights(State), u) # null_literal
  /\ \E i \in 1 .. Len(pre_select_table(State).m_lookahead) - 1 :
       pre_select_table(State).m_lookahead[i].m_offset
         > pre_select_table(State).m_lookahead[i + 1].m_offset


\* ------------------------------------------------- conflicts found by get_scc
\* The literals of the candidates of s, and what a set of them reaches over
\* the binary clauses of the adjacency without leaving the candidates.
scc_lits(s) ==
  { l \in Lits : \E i \in 1 .. Len(s.m_candidates) : s.m_candidates[i].m_var = var(l) }

RECURSIVE scc_reach(_, _)
scc_reach(s, S) ==
  LET S2 == S \cup { b \in scc_lits(s) : \E a \in S : b \in Range(s.m_binary[a]) }
  IN IF S2 = S THEN S ELSE scc_reach(s, S2)

\* l and its negation are in one strongly connected component.
self_contradicting(s, l) ==
  /\ l \in scc_lits(s)
  /\ neg(l) \in scc_reach(s, {l})
  /\ l \in scc_reach(s, {neg(l)})

\* The state of get_scc() before candidate k, and after get_scc(literal) has
\* run for the positive literal of candidate k.
scc_before(s, k) == get_scc_loop(init_scc(s), 1, k - 1)

scc_after_first(s, k) ==
  LET lit == mk_literal(s.m_candidates[k].m_var, FALSE)
  IN IF get_rank(scc_before(s, k), lit) = 0
     THEN get_scc_from(scc_before(s, k), lit)
     ELSE scc_before(s, k)

\* C29: get_scc() on the candidates that select() has chosen ends with the
\* conflict flag set exactly when some candidate literal and its negation
\* reach each other over binary clauses among the candidates; and once the
\* flag is set in the search from a candidate's positive literal, the
\* negative literal has been ranked already, so that no further search is
\* started and get_scc() returns the state of that moment.
C29_SccConflict ==
  pc = "choose" =>
    \A r \in { select([State EXCEPT !.m_lookahead = << >>], scope_lvl(State),
                      in_heur) } :
      r[2] = "true" =>
        /\ get_scc(r[1]).m_inconsistent
             <=> \E l \in Lits : self_contradicting(r[1], l)
        /\ \A k \in 1 .. Len(r[1].m_candidates) :
             (  /\ ~scc_before(r[1], k).m_inconsistent
                /\ scc_after_first(r[1], k).m_inconsistent )
               => /\ get_rank(scc_after_first(r[1], k),
                              mk_literal(r[1].m_candidates[k].m_var, TRUE)) # 0
                  /\ get_scc(r[1]) = scc_after_first(r[1], k)

\* get_scc() meets a conflict with two candidates or more, in the search
\* from a candidate that is not the first.
C29_Witness ==
  /\ pc = "choose"
  /\ \E r \in { select([State EXCEPT !.m_lookahead = << >>], scope_lvl(State),
                       in_heur) } :
       /\ r[2] = "true"
       /\ Len(r[1].m_candidates) >= 2
       /\ \E k \in 2 .. Len(r[1].m_candidates) :
            /\ ~scc_before(r[1], k).m_inconsistent
            /\ scc_after_first(r[1], k).m_inconsistent


\* ------------------------------------------------------- the cut of select
\* The cut of select() runs on the candidates that init_candidates() has
\* gathered: free variables in the order of m_freevars, each with its rating,
\* and the sum of the ratings.
MaxCands == 4
MaxRating == 3
MaxKeep == 2

RECURSIVE rating_sum(_)
rating_sum(cands) ==
  IF cands = << >> THEN 0
  ELSE cands[Len(cands)].m_rating + rating_sum(Front(cands))

Gathered ==
  UNION { { table([i \in 1 .. n |-> candidate(i - 1, r[i])]) :
              r \in [1 .. n -> 1 .. MaxRating] } : n \in 1 .. MaxCands }

CutInputs ==
  { [cands |-> c, sum |-> rating_sum(c), max_num_cand |-> m,
     entered |-> << >>, at |-> "gathered"] :
      c \in Gathered, m \in 1 .. MaxKeep }

\* The solver is as constructed and stays so.
InitCut ==
  /\ InitArgs({Formula(<< >>, SignPatterns(16), << >>)}, {<< >>}, {{}})
  /\ lv = NoLevels
  /\ hc \in CutInputs

\* step 1: the cut below the mean, while 2 * max_num_cand or more are left.
CutMean ==
  /\ hc.at = "gathered"
  /\ \E c \in { prune_loop(hc.cands, hc.sum, TRUE, hc.max_num_cand) } :
       hc' = [hc EXCEPT !.cands = c, !.entered = c, !.at = "pruned"]
  /\ UNCHANGED << inputs, solver, control, history, windfalls, lv,
                  explored >>

\* step 2: the heap, when more than max_num_cand candidates are left.
CutHeap ==
  /\ hc.at = "pruned" /\ Len(hc.cands) > hc.max_num_cand
  /\ hc' = [hc EXCEPT
              !.cands = heap_cut(heapify(hc.cands, Len(hc.cands) \div 2),
                                 hc.max_num_cand),
              !.at = "done"]
  /\ UNCHANGED << inputs, solver, control, history, windfalls, lv,
                  explored >>

\* No heap is built for max_num_cand candidates or fewer.
CutKeep ==
  /\ hc.at = "pruned" /\ Len(hc.cands) <= hc.max_num_cand
  /\ hc' = [hc EXCEPT !.at = "done"]
  /\ UNCHANGED << inputs, solver, control, history, windfalls, lv,
                  explored >>

NextCut ==
  \/ CutMean
  \/ CutHeap
  \/ CutKeep

SpecCut == InitCut /\ [][NextCut]_vars

\* C30: when more than max_num_cand candidates are left after the cut below
\* the mean, the heap step keeps exactly max_num_cand of them and none that
\* it drops has a rating above that of one it keeps; select() never returns
\* with no candidates.
C30_HeapKeepsBest ==
  hc.at = "done" =>
    /\ hc.cands # << >>
    /\ Len(hc.entered) > hc.max_num_cand =>
         /\ Len(hc.cands) = hc.max_num_cand
         /\ \A d \in Range(hc.entered) \ Range(hc.cands) :
              \A k \in Range(hc.cands) : d.m_rating <= k.m_rating


\* ------------------------------------------------------------ select_literal
\* The entries of the lookahead table that select_literal() considers:
\* positive literals that are undef.
eligible(s) ==
  { s.m_lookahead[i].m_lit : i \in
      { j \in 1 .. Len(s.m_lookahead) :
          sign(s.m_lookahead[j].m_lit) = 0 /\ is_undef(s, s.m_lookahead[j].m_lit) } }

mixd(s, lit) == mix_diff(get_wnb(s, lit), get_wnb(s, neg(lit)))

\* l is one of the two literals of an eligible entry with the largest mixd,
\* of the polarity with the smaller WNB (the negative one when they tie),
\* and is unassigned.
selects_maximal(s, l) ==
  /\ mk_literal(var(l), FALSE) \in eligible(s)
  /\ \A e \in eligible(s) : mixd(s, e) <= mixd(s, l)
  /\ get_wnb(s, l) <= get_wnb(s, neg(l))
  /\ (sign(l) = 0 => get_wnb(s, l) < get_wnb(s, neg(l)))
  /\ is_undef(s, l)

C36_ReturnsLiteral ==
  (pc = "select_literal" /\ eligible(State) # {})
    => select_literal(State, m_rand)[1] # null_literal


\* --------------------------------------------------------------- double_look
\* compute_wnb() is about to probe a literal in a round after the first, a
\* decision is open, and the probe meets what double_look() asserts at its
\* head (no conflict, dl_no_overflow): the state at the call, the level
\* dl_truth, and what double_look() returns (<< state, base >>).
dl_entry == probe_lookahead1

dl_pending ==
  /\ ProbePending /\ probe_made /\ ~cw.first
  /\ scope_lvl(dl_entry) > 1
  /\ ~dl_entry.m_inconsistent
  /\ dl_no_overflow(dl_entry, cw.base)

dl_level == cw.base + 2 * Len(m_lookahead) * (dl_max_iterations + 1)

dl_exit == double_look(dl_entry, probe_lit, cw.base)

\* Some lookahead2 probe of the double look has failed: the mark of the last
\* init_wnb() is above the trail of the call.
dl_promoted ==
  Last(double_look_while(
         propagate(assign(init_wnb(with_level(dl_entry, dl_level)), probe_lit)),
         cw.base, dl_level, TRUE, 0).m_trail_lim) > Len(dl_entry.m_trail)

\* What double_look() is to leave of the state s it was called in.
dl_unwound(s, r) ==
  /\ Len(r[1].m_trail) = Len(s.m_trail)
  /\ r[1].m_qhead = s.m_qhead
  /\ Len(r[1].m_trail_lim) = Len(s.m_trail_lim)
  /\ Len(r[1].m_qhead_lim) = Len(s.m_qhead_lim)
  /\ \A v \in Vars : r[1].m_stamp[v] - (r[1].m_stamp[v] % 2) # dl_level
  /\ r[1].m_level = s.m_level
  /\ r[2] = dl_level

enclosing_mark(lim) == IF lim = << >> THEN 0 ELSE Last(lim)

\* One round of backtrack() has put the negation of the decision d that it
\* popped on m_trail above the mark of the enclosing scope, true at
\* c_fixed_truth.
flipped_in_scope(d) ==
  /\ m_stamp'[var(d)] = c_fixed_truth + sign(neg(d))
  /\ \E p \in DOMAIN m_trail' :
       /\ m_trail'[p] = neg(d)
       /\ p > enclosing_mark(m_trail_lim')

\* C33: at the head of every iteration of the loop of search() there are as
\* many open scopes as decisions on the decision stack, and a round of
\* backtrack() that ends without conflict, so that backtrack() returns
\* true, has assigned the negation of the decision it popped in the
\* enclosing scope.
C33_ScopesMatchDecisions ==
  /\ [](pc \in {"search", "backtrack"} => Len(m_trail_lim) = Len(trail))
  /\ [][BacktrackFlip /\ ~m_inconsistent'
          => /\ \A d \in {Last(trail)} : flipped_in_scope(d)
             /\ Len(m_trail_lim') = Len(trail')
             /\ pc' = "backtrack"]_vars
  /\ [][pc = "backtrack" /\ pc' = "search" => ~m_inconsistent']_vars

\* backtrack() is about to return true inside an open scope, with a literal
\* fixed above the mark of that scope.
C33_Witness ==
  /\ pc = "backtrack"
  /\ ~m_inconsistent
  /\ trail # << >>
  /\ Len(m_trail_lim) = Len(trail)
  /\ \E p \in DOMAIN m_trail :
       p > Last(m_trail_lim) /\ m_stamp[var(m_trail[p])] >= c_fixed_truth

\* --------------------------------------------------------------- C34
\* m_freevars holds, once each, the variables without a stamp of
\* c_fixed_truth; was_eliminated() of the solver is false of every variable
\* here, as init_var() takes it.
freevars_exact(s) ==
  /\ Range(s.m_freevars) = {v \in Vars : s.m_stamp[v] < c_fixed_truth}
  /\ Len(s.m_freevars) = Cardinality(Range(s.m_freevars))

\* The variables of the trail segment above the last mark.
unwound_vars(s) ==
  {var(s.m_trail[i]) : i \in Last(s.m_trail_lim) + 1 .. Len(s.m_trail)}

\* C34: in searching mode, between the operations of search(), m_freevars
\* holds exactly the variables not assigned at c_fixed_truth; assign of an
\* undef literal takes its variable out, the pop() of backtrack puts back
\* exactly the variables of the trail segment it unwinds, and neither a
\* lookahead1 probe with its double lookahead, nor pop_lookahead1, nor
\* reset_wnb changes the set.
C34_FreevarsExact ==
  /\ [](Quiescent /\ pc # "init_search" /\ m_search_mode = "searching"
          => freevars_exact(State))
  /\ [](pc # "init_search" /\ m_search_mode = "searching"
          => \A l \in Lits : is_undef(State, l) =>
               Range(assign(State, l).m_freevars)
                 = Range(m_freevars) \ {var(l)})
  /\ [][BacktrackPop =>
          \A u \in {unwound_vars(State)} :
            /\ Range(m_freevars') = Range(m_freevars) \cup u
            /\ u \cap Range(m_freevars) = {}]_vars
  /\ [](ProbePending /\ probe_made
          => /\ probe_pushed.m_freevars = m_freevars
             /\ probe_lookahead2.m_freevars = m_freevars
             /\ probe_popped.m_freevars = m_freevars)
  /\ [](pc \in {"cw_while", "cw_for", "cw_exit"}
          => reset_wnb(State).m_freevars = m_freevars)

\* The pop() of backtrack has unwound a decision and a consequence of it
\* while other variables stay assigned and others free.
C34_Witness ==
  /\ pc = "backtrack_flip"
  /\ popped.valid
  /\ m_search_mode = "searching"
  /\ Len(popped.before_pop.m_trail) > Len(m_trail) + 1
  /\ m_trail # << >>
  /\ Len(m_freevars) > Len(popped.before_pop.m_trail) - Len(m_trail)
  /\ freevars_exact(State)

\* --------------------------------------------------------------- C35
\* C35: wherever choose() starts a round of its loop, the
\* candidate-gathering loop of the select() of pre_select() comes to an
\* end, with candidates or with is_sat(), also when no variable of
\* m_select_lookahead_vars is free and the formula is not satisfied.
C35_SelectExits ==
  pc = "choose" => pre_select_scc(State, in_heur)[2] # "loop"

\* --------------------------------------------------------------- C37
\* The positions of search() and the locals of compute_wnb().
PCs ==
  {"init_search", "search", "backtrack", "backtrack_pop", "backtrack_flip",
   "choose", "select_spin", "find_heights", "compute_wnb", "cw_while",
   "cw_for", "cw_exit", "select_literal", "chosen", "done"}

CWs ==
  [i : 0 .. 2 * NumVars + 1, base : 0 .. UINT_MAX, change : BOOLEAN,
   first : BOOLEAN]

\* search() has not returned and is not going round in select().
Running == pc \notin {"done", "select_spin"}

\* A step of search(): it moves the position or the locals of compute_wnb().
Tick == Running /\ pc' \in PCs /\ cw' \in CWs

\* search() without cancellation is sequential code that waits on nothing:
\* while it is running its next step is taken.
SpecFair == Init /\ [][Next]_vars /\ WF_<< pc, cw >>(Tick)

search_returned == pc = "done" /\ result \in {"l_true", "l_false"}

\* C37: every run of search() without cancellation returns l_true or
\* l_false; every round of backtrack() takes a decision off the decision
\* stack and, when it ends without conflict, leaves its negation fixed; and
\* no decision is made a second time on the same decision stack.  Every
\* step of search() is a step that the fairness condition counts.
C37_SearchTerminates ==
  /\ <>search_returned
  /\ [][BacktrackFlip =>
          /\ trail' = Front(trail)
          /\ ~m_inconsistent' => \A d \in {Last(trail)} : fixed_true(neg(d))'
       ]_vars
  /\ [][Decide /\ pc' = "search" =>
          /\ << trail, lit_chosen >> \notin explored
          /\ trail' = Append(trail, lit_chosen)]_vars
  /\ [][Tick /\ << pc, cw >>' # << pc, cw >>]_vars

\* search() has returned l_false after three decisions or more.
C37_Witness ==
  /\ search_returned
  /\ result = "l_false"
  /\ Cardinality(explored) >= 3

\* --------------------------------------------------------------- C39
\* scc() on its own, on sets of binary clauses over x1 .. x4 that make
\* equivalences of both signs, chains of them, classes of three and classes
\* that imply their own complement.
MaxSccBinaries == 4

SccPool ==
  << << P(1), P(2) >>, << P(1), N(2) >>, << N(1), N(3) >>, << P(2), P(3) >>,
     << N(1), P(2) >>, << P(1), P(3) >>, << N(2), P(3) >>, << N(3), P(4) >>,
     << N(4), P(2) >>, << P(2), P(4) >>, << N(2), N(4) >>, << N(4), P(3) >> >>

SccFormulas ==
  { Formula(Pick(SccPool, I, 1), << >>, << >>) :
      I \in {J \in SUBSET (1 .. Len(SccPool)) :
               Cardinality(J) <= MaxSccBinaries} }

InitScc == InitArgs(SccFormulas, {<< >>}, {{}}) /\ lv = NoLevels /\ hc = NoCut

\* scc() called on the lookahead as constructed; the roots and to_elim it
\* hands to elim_eqs are those of scc_result in the state before.
SccCall ==
  /\ pc = "init_search"
  /\ SetState([scc_result.state EXCEPT !.m_lookahead = << >>, !.m_level = 2])
  /\ pc' = "returned"
  /\ UNCHANGED << inputs, trail, lit_chosen, cw, result, m_rand, history,
                  learned >>

NextScc == SccCall

SpecScc == InitScc /\ [][NextScc]_vars

\* C39: after scc() has extracted the roots, the root of an eliminated
\* variable is a literal of a variable that is not eliminated and that is
\* its own root, with the positive literal.
C39_RootsNotEliminated ==
  pc = "init_search"
    => \A r \in {scc_result} :
         r.ran =>
           \A k \in 1 .. Len(r.to_elim) :
             \A p \in {r.roots[r.to_elim[k]]} :
               /\ var(p) \notin Range(r.to_elim)
               /\ r.roots[var(p)] = mk_literal(var(p), FALSE)

\* --------------------------------------------------------------- C38
\* The nodes of the forest under u: u, its children and theirs.
subtree(s, u) ==
  {u} \cup Range(forest_preorder(s, get_child(s, u), 2 * NumVars + 1))

\* The children of u: the nodes on the chain of links from its first child.
RECURSIVE sibling_chain(_, _, _)
sibling_chain(s, u, fuel) ==
  IF u = null_literal \/ fuel = 0 THEN {}
  ELSE {u} \cup sibling_chain(s, get_link(s, u), fuel - 1)

children(s, u) == sibling_chain(s, get_child(s, u), 2 * NumVars + 1)

\* Entry j of the table of s2, built on the forest of s, comes after entry i
\* and has a smaller offset.
probed_under(s2, i, j) ==
  /\ i < j
  /\ s2.m_lookahead[j].m_offset < s2.m_lookahead[i].m_offset

nested_entries(s, s2) ==
  \A i \in 1 .. Len(s2.m_lookahead) : \A j \in 1 .. Len(s2.m_lookahead) :
    /\ probed_under(s2, i, j)
         => /\ forest(s)[j] \in subtree(s, forest(s)[i])
            /\ implies_within(s2.m_binary, s2.m_lookahead[j].m_lit,
                              s2.m_lookahead[i].m_lit, 2 * NumVars)
    /\ forest(s)[j] \in children(s, forest(s)[i])
         => /\ s2.m_lookahead[i].m_offset > s2.m_lookahead[j].m_offset
            /\ i < j

\* C38: in the table that construct_lookahead_table() builds, an entry that
\* comes after another with a smaller offset is a node of the subtree of
\* that other entry and its literal implies the literal of that entry over
\* the binary clauses; and the entry of a parent comes before the entry of
\* each of its children with a larger offset.
C38_NestedEntries ==
  pc = "find_heights"
    => nested_entries(find_heights(State), pre_select_table(State))

\* A table with an entry, a child of it and a child of that child.
C38_Witness ==
  /\ pc = "find_heights"
  /\ \E i, j, k \in 1 .. Len(pre_select_table(State).m_lookahead) :
       /\ probed_under(pre_select_table(State), i, j)
       /\ probed_under(pre_select_table(State), j, k)
       /\ forest(find_heights(State))[j]
            \in children(find_heights(State), forest(find_heights(State))[i])

\* --------------------------------------------------------------- C40
\* The prefix operations on their own, at depths up to MaxDepth with at most
\* MaxPrefixOnes bits of m_prefix set, on variable 0 whose stored prefix has
\* length 0 or the depth and is empty or the low word of m_prefix.
MaxDepth == 34
MaxPrefixOnes == 2

\* The subsets of S of at most k members.
RECURSIVE SmallSubsets(_, _)
SmallSubsets(S, k) ==
  IF k = 0 THEN {{}}
  ELSE SmallSubsets(S, k - 1)
         \cup UNION {{T \cup {x} : x \in S} : T \in SmallSubsets(S, k - 1)}

PrefixesAt(d) == SmallSubsets(0 .. Min2(d, PrefixBits - 1), MaxPrefixOnes)

InitPrefix ==
  /\ InitArgs({Formula(<< >>, SignPatterns(16), << >>)}, {<< >>}, {{}})
  /\ lv = NoLevels
  /\ hc = NoCut

\* search() is at depth d with the prefix p.
PrefixEnter ==
  /\ pc = "init_search"
  /\ \E d \in 0 .. MaxDepth : \E p \in PrefixesAt(d) :
       \E pl \in {0, d} : \E vp \in {{}, low_bits(p, UnsignedBits)} :
         SetState([State EXCEPT
                     !.m_trail_lim = table([i \in 1 .. d |-> 0]),
                     !.m_prefix = p,
                     !.m_vprefix =
                        table([v \in Vars |->
                                 [m_prefix |-> vp, m_length |-> pl]])])
  /\ pc' = "prefix"
  /\ UNCHANGED << inputs, trail, lit_chosen, cw, result, m_rand, history,
                  learned >>

PrefixUpdate ==
  /\ pc = "prefix"
  /\ SetState(update_prefix(State, mk_literal(0, FALSE)))
  /\ pc' = "prefix_updated"
  /\ UNCHANGED << inputs, trail, lit_chosen, cw, result, m_rand, history,
                  learned >>

PrefixFlip ==
  /\ pc = "prefix"
  /\ SetState(flip_prefix(State))
  /\ pc' = "prefix_flipped"
  /\ UNCHANGED << inputs, trail, lit_chosen, cw, result, m_rand, history,
                  learned >>

NextPrefix == PrefixEnter \/ PrefixUpdate \/ PrefixFlip

SpecPrefix == InitPrefix /\ [][NextPrefix]_vars

====
